---- MODULE Spec2Model ----
(***************************************************************************)
(* vCard parser (rust/src/lib.rs) as a state machine.                      *)
(*                                                                         *)
(* A Rust String is modelled as the sequence of its UTF-8 bytes.  An ASCII *)
(* character is one byte, written as the one-character string it prints    *)
(* as.  The model's alphabet holds one non-ASCII character, the section    *)
(* sign U+00A7, whose UTF-8 encoding is the lead byte "C2" followed by the *)
(* continuation byte "A7"; it has no case mapping.  Byte offsets and       *)
(* character offsets therefore differ exactly as they do in the program.   *)
(***************************************************************************)
EXTENDS Integers, Sequences, FiniteSets, TLC

VARIABLES
    text,          \* argument of the running (or last) parse call
    lines,         \* VCardParser.lines
    current_line,  \* VCardParser.current_line (0-based, as in the source)
    vcards,        \* local `vcards` of parse
    vcard,         \* local `vcard` of parse, the record parse_component fills
    pc,            \* position of the caller/parse: idle, await, comp, done, panicked
    result,        \* value returned by the last finished parse call
    calls,         \* number of parse calls started on this instance
    prev,          \* how the call before the running one left the instance
    arg,           \* unit specifications: the argument handed to a function
    out            \* unit specifications: what the function returned

vars == <<text, lines, current_line, vcards, vcard, pc, result, calls, prev, arg, out>>

-----------------------------------------------------------------------------
(* Bounds of the model *)

\* a text is the concatenation of at most MaxSegments segments of SegmentPool
MaxSegments == 3
\* parse calls made on one parser instance
MaxCalls == 2
\* characters of a line handed to the property tokenizer on its own
MaxTokLen == 5
\* parameter clauses of a generated property line
MaxClauses == 2
\* characters of a generated raw value
MaxValLen == 4
\* characters of a logical line that is folded
MaxLineLen == 4
\* bytes of a text of letters, whitespace and line breaks
MaxTextLen == 5
\* add_property calls on one record
MaxAdds == 4

-----------------------------------------------------------------------------
(* Bytes and characters *)

LF == "\n"
CR == "\r"
TAB == "\t"
SP == " "
DQUOTE == "\""
BACKSLASH == "\\"

\* U+00A7 in UTF-8
SectLead == "C2"
SectCont == "A7"
Sect == <<SectLead, SectCont>>

\* a UTF-8 continuation byte (10xxxxxx): not the start of a character
IsContinuation(b) == b = SectCont

LowerCase == <<"a","b","c","d","e","f","g","h","i","j","k","l","m",
               "n","o","p","q","r","s","t","u","v","w","x","y","z">>
UpperCase == <<"A","B","C","D","E","F","G","H","I","J","K","L","M",
               "N","O","P","Q","R","S","T","U","V","W","X","Y","Z">>

\* char::to_uppercase / to_ascii_uppercase on the model's alphabet
UpperByte(b) ==
    IF \E i \in 1..26 : LowerCase[i] = b
    THEN UpperCase[CHOOSE i \in 1..26 : LowerCase[i] = b]
    ELSE b

\* str::to_uppercase
to_uppercase(s) == [i \in 1..Len(s) |-> UpperByte(s[i])]

\* str::eq_ignore_ascii_case
eq_ignore_ascii_case(s, t) == to_uppercase(s) = to_uppercase(t)

\* char::is_whitespace on the model's alphabet
IsWhitespace(b) == b \in {SP, TAB, CR, LF}

\* str::starts_with
starts_with(s, p) == Len(s) >= Len(p) /\ SubSeq(s, 1, Len(p)) = p

\* str::is_char_boundary (byte offset i, 0-based)
is_char_boundary(s, i) ==
    \/ i = 0
    \/ i = Len(s)
    \/ (i > 0 /\ i < Len(s) /\ ~IsContinuation(s[i + 1]))

\* &s[a..]: the bytes from offset a on (callers check the boundary first)
SliceFrom(s, a) == SubSeq(s, a + 1, Len(s))
\* &s[..b]
SliceTo(s, b) == SubSeq(s, 1, b)

RECURSIVE TrimStart(_)
TrimStart(s) ==
    IF s # <<>> /\ IsWhitespace(s[1]) THEN TrimStart(Tail(s)) ELSE s

RECURSIVE TrimEnd(_)
TrimEnd(s) ==
    IF s # <<>> /\ IsWhitespace(s[Len(s)]) THEN TrimEnd(SubSeq(s, 1, Len(s) - 1)) ELSE s

\* str::trim
trim(s) == TrimEnd(TrimStart(s))

\* first offset (0-based) of byte b in s, or -1: str::find(char)
RECURSIVE FindFrom(_, _, _)
FindFrom(s, b, i) ==
    IF i > Len(s) THEN -1
    ELSE IF s[i] = b THEN i - 1
    ELSE FindFrom(s, b, i + 1)

find(s, b) == FindFrom(s, b, 1)

\* str::replace(from, to) for a two-byte pattern `from`: non-overlapping
\* matches, leftmost first
RECURSIVE replace(_, _, _)
replace(s, from, to) ==
    IF Len(s) < Len(from) THEN s
    ELSE IF SubSeq(s, 1, Len(from)) = from
         THEN to \o replace(SubSeq(s, Len(from) + 1, Len(s)), from, to)
         ELSE <<s[1]>> \o replace(Tail(s), from, to)

-----------------------------------------------------------------------------
(* Line unfolder *)

\* str::lines: split at LF; a CR right before that LF is dropped; no empty
\* last line after a final LF
RECURSIVE str_lines(_)
str_lines(t) ==
    IF t = <<>> THEN <<>>
    ELSE LET n == find(t, LF) IN
         IF n = -1 THEN <<t>>
         ELSE LET raw == SliceTo(t, n)
                  line == IF raw # <<>> /\ raw[Len(raw)] = CR
                          THEN SubSeq(raw, 1, Len(raw) - 1) ELSE raw
              IN <<line>> \o str_lines(SliceFrom(t, n + 1))

\* the accumulated line pushed as it is
PushUntrimmed(unfolded, cur) ==
    IF cur # <<>> THEN Append(unfolded, cur) ELSE unfolded

\* the two places of unfold_lines that push the accumulated line
PushTrimmed(unfolded, cur) ==
    IF cur # <<>> /\ trim(cur) # <<>> THEN Append(unfolded, trim(cur)) ELSE unfolded

\* the for loop of unfold_lines over the physical lines ls[i..]
RECURSIVE UnfoldLoop(_, _, _, _)
UnfoldLoop(ls, i, unfolded, cur) ==
    IF i > Len(ls) THEN PushTrimmed(unfolded, cur)
    ELSE LET line == ls[i] IN
         IF starts_with(line, <<SP>>) \/ starts_with(line, <<TAB>>)
         THEN UnfoldLoop(ls, i + 1, unfolded, cur \o SliceFrom(line, 1))
         ELSE UnfoldLoop(ls, i + 1, PushTrimmed(unfolded, cur), line)

\* the unfolder taking all leading whitespace off a continuation line
RECURSIVE UnfoldLoopTrimAll(_, _, _, _)
UnfoldLoopTrimAll(ls, i, unfolded, cur) ==
    IF i > Len(ls) THEN PushTrimmed(unfolded, cur)
    ELSE LET line == ls[i] IN
         IF starts_with(line, <<SP>>) \/ starts_with(line, <<TAB>>)
         THEN UnfoldLoopTrimAll(ls, i + 1, unfolded, cur \o TrimStart(line))
         ELSE UnfoldLoopTrimAll(ls, i + 1, PushTrimmed(unfolded, cur), line)

unfold_lines_trim_all(vcard_text) == UnfoldLoopTrimAll(str_lines(vcard_text), 1, <<>>, <<>>)

unfold_lines(vcard_text) == UnfoldLoop(str_lines(vcard_text), 1, <<>>, <<>>)

-----------------------------------------------------------------------------
(* Errors and results *)

\* ParseError::new(format!(template, arg)); arg is <<>> where the message
\* has no placeholder
ParseError(template, a) == [template |-> template, arg |-> a]
NoError == ParseError("", <<>>)

-----------------------------------------------------------------------------
(* Record model *)

\* HashMap::new()
EmptyMap == [k \in {} |-> <<>>]

\* map.entry(k).or_insert_with(Vec::new).push(v)
PushEntry(map, k, v) ==
    [x \in (DOMAIN map) \cup {k} |->
        IF x = k
        THEN (IF k \in DOMAIN map THEN Append(map[k], v) ELSE <<v>>)
        ELSE map[x]]

\* VCardProperty::new
VCardProperty(name, value) ==
    [name |-> to_uppercase(name), value |-> value, parameters |-> EmptyMap]

\* parameters.insert(name, vec![value]) in place of entry().push()
add_parameter_replaces(property, param_name, param_value) ==
    [property EXCEPT !.parameters =
        [x \in (DOMAIN @) \cup {to_uppercase(param_name)} |->
            IF x = to_uppercase(param_name) THEN <<param_value>> ELSE @[x]]]

\* VCardProperty::add_parameter
add_parameter(property, param_name, param_value) ==
    [property EXCEPT !.parameters = PushEntry(@, to_uppercase(param_name), param_value)]

\* VCardProperty::get_parameters (<<>> models None)
get_parameters(property, param_name) ==
    IF to_uppercase(param_name) \in DOMAIN property.parameters
    THEN property.parameters[to_uppercase(param_name)]
    ELSE <<>>

\* Option<T>
None == [some |-> FALSE, value |-> <<>>]
Some(v) == [some |-> TRUE, value |-> v]

\* VCardProperty::get_parameter
get_parameter(property, param_name) ==
    IF get_parameters(property, param_name) = <<>>
    THEN None
    ELSE Some(get_parameters(property, param_name)[1])

\* VCardObject::new: the `properties` map of the record
VCardObject == EmptyMap

\* properties.insert(name, vec![property]) in place of entry().push()
add_property_replaces(object, property) ==
    [x \in (DOMAIN object) \cup {property.name} |->
        IF x = property.name THEN <<property>> ELSE object[x]]

\* VCardObject::add_property
add_property(object, property) == PushEntry(object, property.name, property)

\* VCardObject::get_properties (<<>> models None)
get_properties(object, name) ==
    IF to_uppercase(name) \in DOMAIN object THEN object[to_uppercase(name)] ELSE <<>>

\* VCardObject::get_property is Some
has_property(object, name) == get_properties(object, name) # <<>>

\* VCardObject::get_property, used where it is Some
get_property(object, name) == get_properties(object, name)[1]

NameVERSION == <<"V","E","R","S","I","O","N">>
NameFN == <<"F","N">>
V40 == <<"4",".","0">>

-----------------------------------------------------------------------------
(* Delimiter scanner *)

\* find_unquoted_char: p is the byte position (1-based) of the character
\* looked at, i its index in s.chars().enumerate(); -1 models None
RECURSIVE FindUnquoted(_, _, _, _, _)
FindUnquoted(s, target, p, i, in_quotes) ==
    IF p > Len(s) THEN -1
    ELSE IF IsContinuation(s[p]) THEN FindUnquoted(s, target, p + 1, i, in_quotes)
    ELSE IF s[p] = DQUOTE THEN FindUnquoted(s, target, p + 1, i + 1, ~in_quotes)
    ELSE IF s[p] = target /\ ~in_quotes THEN i
    ELSE FindUnquoted(s, target, p + 1, i + 1, in_quotes)

\* the scanner without its quote state
RECURSIVE FindQuoteBlind(_, _, _, _)
FindQuoteBlind(s, target, p, i) ==
    IF p > Len(s) THEN -1
    ELSE IF IsContinuation(s[p]) THEN FindQuoteBlind(s, target, p + 1, i)
    ELSE IF s[p] = target THEN i
    ELSE FindQuoteBlind(s, target, p + 1, i + 1)

find_unquoted_char_quote_blind(s, target) == FindQuoteBlind(s, target, 1, 0)

find_unquoted_char(s, target) == FindUnquoted(s, target, 1, 0, FALSE)

-----------------------------------------------------------------------------
(* Value unescaper *)

\* the backslash rule applied first
unescape_value_backslash_first(value) ==
    replace(replace(replace(replace(replace(value,
        <<BACKSLASH, BACKSLASH>>, <<BACKSLASH>>),
        <<BACKSLASH, "n">>, <<LF>>),
        <<BACKSLASH, "N">>, <<LF>>),
        <<BACKSLASH, ";">>, <<";">>),
        <<BACKSLASH, ",">>, <<",">>)

\* the backslash-backslash rule run before the comma rule
unescape_value_backslash_fourth(value) ==
    replace(replace(replace(replace(replace(value,
        <<BACKSLASH, "n">>, <<LF>>),
        <<BACKSLASH, "N">>, <<LF>>),
        <<BACKSLASH, ";">>, <<";">>),
        <<BACKSLASH, BACKSLASH>>, <<BACKSLASH>>),
        <<BACKSLASH, ",">>, <<",">>)

\* the escapes decoded in one scan from left to right
RECURSIVE unescape_value_one_scan(_)
unescape_value_one_scan(value) ==
    IF Len(value) < 2 THEN value
    ELSE IF value[1] = BACKSLASH /\ value[2] \in {"n", "N"}
    THEN <<LF>> \o unescape_value_one_scan(SubSeq(value, 3, Len(value)))
    ELSE IF value[1] = BACKSLASH /\ value[2] \in {";", ",", BACKSLASH}
    THEN <<value[2]>> \o unescape_value_one_scan(SubSeq(value, 3, Len(value)))
    ELSE <<value[1]>> \o unescape_value_one_scan(Tail(value))

unescape_value(value) ==
    replace(replace(replace(replace(replace(value,
        <<BACKSLASH, "n">>, <<LF>>),
        <<BACKSLASH, "N">>, <<LF>>),
        <<BACKSLASH, ";">>, <<";">>),
        <<BACKSLASH, ",">>, <<",">>),
        <<BACKSLASH, BACKSLASH>>, <<BACKSLASH>>)

-----------------------------------------------------------------------------
(* Parameter decoder *)

\* the for loop of split_parameters over the bytes s[p..]
RECURSIVE SplitParametersLoop(_, _, _, _, _)
SplitParametersLoop(s, p, parameters, current, in_quotes) ==
    IF p > Len(s)
    THEN (IF current # <<>> THEN Append(parameters, current) ELSE parameters)
    ELSE IF s[p] = DQUOTE
         THEN SplitParametersLoop(s, p + 1, parameters, Append(current, s[p]), ~in_quotes)
    ELSE IF s[p] = ";" /\ ~in_quotes
         THEN SplitParametersLoop(s, p + 1, Append(parameters, current), <<>>, in_quotes)
    ELSE SplitParametersLoop(s, p + 1, parameters, Append(current, s[p]), in_quotes)

\* the splitter cutting at every semicolon
RECURSIVE SplitParametersQuoteBlind(_, _, _, _)
SplitParametersQuoteBlind(s, p, parameters, current) ==
    IF p > Len(s)
    THEN (IF current # <<>> THEN Append(parameters, current) ELSE parameters)
    ELSE IF s[p] = ";"
         THEN SplitParametersQuoteBlind(s, p + 1, Append(parameters, current), <<>>)
    ELSE SplitParametersQuoteBlind(s, p + 1, parameters, Append(current, s[p]))

split_parameters_quote_blind(params_part) ==
    SplitParametersQuoteBlind(params_part, 1, <<>>, <<>>)

\* the splitter with empty clauses left out
RECURSIVE SplitParametersSkipEmpty(_, _, _, _, _)
SplitParametersSkipEmpty(s, p, parameters, current, in_quotes) ==
    LET pushed == IF current # <<>> THEN Append(parameters, current) ELSE parameters IN
    IF p > Len(s) THEN pushed
    ELSE IF s[p] = DQUOTE
         THEN SplitParametersSkipEmpty(s, p + 1, parameters, Append(current, s[p]), ~in_quotes)
    ELSE IF s[p] = ";" /\ ~in_quotes
         THEN SplitParametersSkipEmpty(s, p + 1, pushed, <<>>, in_quotes)
    ELSE SplitParametersSkipEmpty(s, p + 1, parameters, Append(current, s[p]), in_quotes)

split_parameters_skip_empty(params_part) ==
    SplitParametersSkipEmpty(params_part, 1, <<>>, <<>>, FALSE)

split_parameters(params_part) == SplitParametersLoop(params_part, 1, <<>>, <<>>, FALSE)

\* the for loop of split_parameter_values over the bytes s[p..]
RECURSIVE SplitValuesLoop(_, _, _, _, _)
SplitValuesLoop(s, p, values, current, in_quotes) ==
    IF p > Len(s)
    THEN (IF current # <<>> THEN Append(values, current) ELSE values)
    ELSE IF s[p] = DQUOTE
         THEN SplitValuesLoop(s, p + 1, values, current, ~in_quotes)
    ELSE IF s[p] = "," /\ ~in_quotes
         THEN SplitValuesLoop(s, p + 1, Append(values, current), <<>>, in_quotes)
    ELSE SplitValuesLoop(s, p + 1, values, Append(current, s[p]), in_quotes)

\* the splitter with the quote characters copied into the piece
RECURSIVE SplitValuesKeepQuotes(_, _, _, _, _)
SplitValuesKeepQuotes(s, p, values, current, in_quotes) ==
    IF p > Len(s)
    THEN (IF current # <<>> THEN Append(values, current) ELSE values)
    ELSE IF s[p] = DQUOTE
         THEN SplitValuesKeepQuotes(s, p + 1, values, Append(current, s[p]), ~in_quotes)
    ELSE IF s[p] = "," /\ ~in_quotes
         THEN SplitValuesKeepQuotes(s, p + 1, Append(values, current), <<>>, in_quotes)
    ELSE SplitValuesKeepQuotes(s, p + 1, values, Append(current, s[p]), in_quotes)

split_parameter_values_keep_quotes(param_value) ==
    SplitValuesKeepQuotes(param_value, 1, <<>>, <<>>, FALSE)

split_parameter_values(param_value) == SplitValuesLoop(param_value, 1, <<>>, <<>>, FALSE)

\* lines 321-324: one pair of enclosing quotes removed
StripQuotes(param_value) ==
    IF Len(param_value) >= 2 /\ param_value[1] = DQUOTE
       /\ param_value[Len(param_value)] = DQUOTE
    THEN SubSeq(param_value, 2, Len(param_value) - 1)
    ELSE param_value

\* lines 328-330: every value of one clause added under param_name
RECURSIVE AddValues(_, _, _, _)
AddValues(property, param_name, values, i) ==
    IF i > Len(values) THEN property
    ELSE AddValues(add_parameter(property, param_name, values[i]), param_name, values, i + 1)

\* the for loop of parse_parameters over the clauses parameters[i..]
RECURSIVE ParametersLoop(_, _, _)
ParametersLoop(parameters, i, property) ==
    IF i > Len(parameters) THEN [tag |-> "ok", property |-> property, err |-> NoError]
    ELSE LET param == parameters[i]
             equals_index == find(param, "=")
         IN IF equals_index = -1
            THEN [tag |-> "err", property |-> property,
                  err |-> ParseError("Invalid parameter (missing equals): {}", param)]
            ELSE LET param_name == to_uppercase(SliceTo(param, equals_index))
                     param_value == StripQuotes(SliceFrom(param, equals_index + 1))
                     values == split_parameter_values(param_value)
                 IN ParametersLoop(parameters, i + 1,
                                   AddValues(property, param_name, values, 1))

parse_parameters(params_part, property) ==
    ParametersLoop(split_parameters(params_part), 1, property)

-----------------------------------------------------------------------------
(* Property tokenizer *)

NoProperty == [name |-> <<>>, value |-> <<>>, parameters |-> EmptyMap]

\* lines 283-300 of parse_property: the character index the scanner returns
\* is used as a byte offset of the slices; a slice at an offset inside a
\* character panics
tokenize(line) ==
    LET colon_index == find_unquoted_char(line, ":")
        none == [tag |-> "panic", name_and_params |-> <<>>, value |-> <<>>,
                 property_name |-> <<>>, has_params |-> FALSE, params_part |-> <<>>,
                 err |-> NoError]
    IN
    IF colon_index = -1
    THEN [none EXCEPT !.tag = "err",
          !.err = ParseError("Invalid property line (missing colon): {}", line)]
    ELSE IF ~is_char_boundary(line, colon_index) \/ ~is_char_boundary(line, colon_index + 1)
    THEN none
    ELSE LET name_and_params == SliceTo(line, colon_index)
             value == SliceFrom(line, colon_index + 1)
             semicolon_index == find_unquoted_char(name_and_params, ";")
             cut == [none EXCEPT !.tag = "ok", !.name_and_params = name_and_params,
                     !.value = value]
         IN IF semicolon_index = -1
            THEN [cut EXCEPT !.property_name = to_uppercase(name_and_params)]
            ELSE IF ~is_char_boundary(name_and_params, semicolon_index)
                    \/ ~is_char_boundary(name_and_params, semicolon_index + 1)
            THEN none
            ELSE [cut EXCEPT
                    !.property_name = to_uppercase(SliceTo(name_and_params, semicolon_index)),
                    !.has_params = TRUE,
                    !.params_part = SliceFrom(name_and_params, semicolon_index + 1)]

parse_property(line) ==
    LET t == tokenize(line) IN
    IF t.tag # "ok" THEN [tag |-> t.tag, property |-> NoProperty, err |-> t.err]
    ELSE LET property == VCardProperty(t.property_name, unescape_value(t.value)) IN
         IF t.has_params
         THEN LET r == parse_parameters(t.params_part, property) IN
              IF r.tag = "ok" THEN r
              ELSE [tag |-> "err", property |-> NoProperty, err |-> r.err]
         ELSE [tag |-> "ok", property |-> property, err |-> NoError]

-----------------------------------------------------------------------------
(* Validator *)

validate_vcard_fn_first(object) ==
    IF ~has_property(object, NameFN)
    THEN ParseError("Missing required FN (Formatted Name) property (RFC 6350 Section 6.2.1). vCard must include FN property.", <<>>)
    ELSE IF ~has_property(object, NameVERSION)
    THEN ParseError("Missing required VERSION property (RFC 6350 Section 6.7.9). vCard must include VERSION:4.0", <<>>)
    ELSE IF get_property(object, NameVERSION).value # V40
    THEN ParseError("Unsupported vCard version: {}. Only version 4.0 is supported (see ADR 0004).",
                    get_property(object, NameVERSION).value)
    ELSE NoError

\* validate_vcard: NoError models Ok(())
validate_vcard(object) ==
    IF ~has_property(object, NameVERSION)
    THEN ParseError("Missing required VERSION property (RFC 6350 Section 6.7.9). vCard must include VERSION:4.0", <<>>)
    ELSE IF get_property(object, NameVERSION).value # V40
    THEN ParseError("Unsupported vCard version: {}. Only version 4.0 is supported (see ADR 0004).",
                    get_property(object, NameVERSION).value)
    ELSE IF ~has_property(object, NameFN)
    THEN ParseError("Missing required FN (Formatted Name) property (RFC 6350 Section 6.2.1). vCard must include FN property.", <<>>)
    ELSE NoError

-----------------------------------------------------------------------------
(* parse and parse_component, one loop iteration at a time *)

BeginVcard == <<"B", "E", "G", "I", "N", ":", "V", "C", "A", "R", "D">>
EndPrefix == <<"E", "N", "D", ":">>
Vcard == <<"V", "C", "A", "R", "D">>

\* the inner while of parse (lines 189-196): skip lines that trim to nothing
RECURSIVE SkipEmpty(_, _)
SkipEmpty(ls, cur) ==
    IF cur < Len(ls) /\ trim(ls[cur + 1]) = <<>> THEN SkipEmpty(ls, cur + 1) ELSE cur

\* lines 216-220: the loop of parse is left at cursor c with the records vs
parse_exit_empty_ok(c, vs) ==
    [tag |-> "ok", current_line |-> c, err |-> NoError]

parse_exit(c, vs) ==
    IF vs = <<>>
    THEN [tag |-> "err", current_line |-> c, err |-> ParseError("No vCard data found", <<>>)]
    ELSE [tag |-> "ok", current_line |-> c, err |-> NoError]

\* lines 202-213: the line at cursor c opens a component or is rejected
parse_line_exact(line, c) ==
    IF line = BeginVcard
    THEN [tag |-> "begin", current_line |-> c + 1, err |-> NoError]
    ELSE [tag |-> "err", current_line |-> c,
          err |-> ParseError("Expected BEGIN:VCARD but got: {}", line)]

parse_line(line, c) ==
    IF eq_ignore_ascii_case(line, BeginVcard)
    THEN [tag |-> "begin", current_line |-> c + 1, err |-> NoError]
    ELSE [tag |-> "err", current_line |-> c,
          err |-> ParseError("Expected BEGIN:VCARD but got: {}", line)]

\* one iteration of the outer while of parse (lines 187-214) up to the call
\* of parse_component, or the exit of the loop and lines 216-220
parse_iter(ls, cur, vs) ==
    LET c == SkipEmpty(ls, cur) IN
    IF c >= Len(ls) THEN parse_exit(c, vs) ELSE parse_line(ls[c + 1], c)

\* line 279: the lines ran out inside parse_component
component_eof_closes(cur, object) ==
    IF validate_vcard(object) # NoError
    THEN [tag |-> "err", current_line |-> cur, vcard |-> object, err |-> validate_vcard(object)]
    ELSE [tag |-> "return", current_line |-> cur, vcard |-> object, err |-> NoError]

component_eof(cur, object) ==
    [tag |-> "err", current_line |-> cur, vcard |-> object,
     err |-> ParseError("Unexpected end of input while parsing VCARD", <<>>)]

\* lines 259-271: a line that starts with END:
component_end_exact(line, cur, object) ==
    LET end_type == SliceFrom(line, 4)
        o == [tag |-> "err", current_line |-> cur, vcard |-> object, err |-> NoError]
    IN
    IF end_type # Vcard
    THEN [o EXCEPT !.err = ParseError(
             "Mismatched END tag: expected END:VCARD but got END:{}", end_type)]
    ELSE IF validate_vcard(object) # NoError
    THEN [o EXCEPT !.current_line = cur + 1, !.err = validate_vcard(object)]
    ELSE [o EXCEPT !.tag = "return", !.current_line = cur + 1]

component_end(line, cur, object) ==
    LET end_type == to_uppercase(SliceFrom(line, 4))
        o == [tag |-> "err", current_line |-> cur, vcard |-> object, err |-> NoError]
    IN
    IF end_type # Vcard
    THEN [o EXCEPT !.err = ParseError(
             "Mismatched END tag: expected END:VCARD but got END:{}", end_type)]
    ELSE IF validate_vcard(object) # NoError
    THEN [o EXCEPT !.current_line = cur + 1, !.err = validate_vcard(object)]
    ELSE [o EXCEPT !.tag = "return", !.current_line = cur + 1]

\* a line that does not parse reported after the record's own defects
component_property_validates_first(line, cur, object) ==
    LET p == parse_property(line)
        o == [tag |-> p.tag, current_line |-> cur, vcard |-> object, err |-> p.err]
    IN
    IF p.tag = "ok"
    THEN [o EXCEPT !.tag = "continue", !.current_line = cur + 1,
                   !.vcard = add_property(object, p.property)]
    ELSE IF p.tag = "err" /\ validate_vcard(object) # NoError
    THEN [o EXCEPT !.err = validate_vcard(object)]
    ELSE o

\* lines 273-275: any other line is a property of the open record
component_property(line, cur, object) ==
    LET p == parse_property(line)
        o == [tag |-> p.tag, current_line |-> cur, vcard |-> object, err |-> p.err]
    IN
    IF p.tag = "ok"
    THEN [o EXCEPT !.tag = "continue", !.current_line = cur + 1,
                   !.vcard = add_property(object, p.property)]
    ELSE o

\* the loop with a BEGIN:VCARD line refused while a component is open
component_iter_rejects_begin(ls, cur, object) ==
    IF cur >= Len(ls) THEN component_eof(cur, object)
    ELSE IF starts_with(to_uppercase(ls[cur + 1]), EndPrefix)
    THEN component_end(ls[cur + 1], cur, object)
    ELSE IF eq_ignore_ascii_case(ls[cur + 1], BeginVcard)
    THEN [tag |-> "err", current_line |-> cur, vcard |-> object,
          err |-> ParseError("Unexpected BEGIN:VCARD inside VCARD", <<>>)]
    ELSE component_property(ls[cur + 1], cur, object)

\* one iteration of the while of parse_component (lines 255-277), or its
\* exit (line 279)
component_iter(ls, cur, object) ==
    IF cur >= Len(ls) THEN component_eof(cur, object)
    ELSE IF starts_with(to_uppercase(ls[cur + 1]), EndPrefix)
    THEN component_end(ls[cur + 1], cur, object)
    ELSE component_property(ls[cur + 1], cur, object)

\* Result<Vec<VCardObject>, ParseError>, and the state of a call that is
\* still running ("none") or that panicked
NoResult == [kind |-> "none", records |-> <<>>, err |-> NoError]
Ok(records) == [kind |-> "ok", records |-> records, err |-> NoError]
Err(e) == [kind |-> "err", records |-> <<>>, err |-> e]
Panicked == [kind |-> "panic", records |-> <<>>, err |-> NoError]

parse_return_partial(o, vs) ==
    IF o.tag = "ok" THEN Ok(vs)
    ELSE IF o.tag = "err" THEN (IF vs # <<>> THEN Ok(vs) ELSE Err(o.err))
    ELSE Panicked

\* what parse returns on an outcome o that ends the call: `?` (line 206) and
\* the return at 209 hand the error on, line 220 returns the records
parse_return(o, vs) ==
    IF o.tag = "ok" THEN Ok(vs)
    ELSE IF o.tag = "err" THEN Err(o.err)
    ELSE Panicked

\* VCardParser::new().parse(t): the iterations above run to the end
RECURSIVE RunParse(_, _, _, _, _)
RunParse(ls, cur, vs, object, in_component) ==
    IF in_component
    THEN LET o == component_iter(ls, cur, object) IN
         IF o.tag = "continue" THEN RunParse(ls, o.current_line, vs, o.vcard, TRUE)
         ELSE IF o.tag = "return"
         THEN RunParse(ls, o.current_line, Append(vs, o.vcard), o.vcard, FALSE)
         ELSE parse_return(o, vs)
    ELSE LET o == parse_iter(ls, cur, vs) IN
         IF o.tag = "begin" THEN RunParse(ls, o.current_line, vs, VCardObject, TRUE)
         ELSE parse_return(o, vs)

ParseFresh(t) == RunParse(unfold_lines(t), 0, <<>>, VCardObject, FALSE)

-----------------------------------------------------------------------------
(* Inputs *)

RECURSIVE Concat(_)
Concat(ss) == IF ss = <<>> THEN <<>> ELSE Head(ss) \o Concat(Tail(ss))

\* physical lines joined by LF
RECURSIVE JoinLines(_)
JoinLines(ls) ==
    IF ls = <<>> THEN <<>>
    ELSE IF Len(ls) = 1 THEN ls[1]
    ELSE ls[1] \o <<LF>> \o JoinLines(Tail(ls))

\* the pieces a text is made of; each is a sequence of physical lines
SegmentPool == <<
    \* 1: a complete component
    << <<"B", "E", "G", "I", "N", ":", "V", "C", "A", "R", "D">>, <<"V", "E", "R", "S", "I", "O", "N", ":", "4", ".", "0">>, <<"F", "N", ":", "A">>, <<"E", "N", "D", ":", "V", "C", "A", "R", "D">> >>,
    \* 2: a complete component, CRLF line ends, mixed case, a parameter
    << <<"b", "e", "g", "i", "n", ":", "v", "c", "a", "r", "d", CR>>, <<"V", "E", "R", "S", "I", "O", "N", ":", "4", ".", "0", CR>>, <<"F", "N", ":", "B", CR>>,
       <<"T", "E", "L", ";", "T", "Y", "P", "E", "=", "w", "o", "r", "k", ":", "1", CR>>, <<"E", "n", "d", ":", "v", "C", "a", "r", "d", CR>> >>,
    \* 3: a complete component with a non-ASCII parameter value
    << <<"B", "E", "G", "I", "N", ":", "V", "C", "A", "R", "D">>, <<"V", "E", "R", "S", "I", "O", "N", ":", "4", ".", "0">>, <<"F", "N", ":", "A">>, <<"N", ";", "X", "=", SectLead, SectCont, ":", "v">>, <<"E", "N", "D", ":", "V", "C", "A", "R", "D">> >>,
    \* 4, 5: openings
    << <<"B", "E", "G", "I", "N", ":", "V", "C", "A", "R", "D">> >>,
    << <<"B", "E", "G", "I", "N", ":", "V", "C", "A", "R", "D">>, <<"V", "E", "R", "S", "I", "O", "N", ":", "4", ".", "0">> >>,
    \* 6, 7: closings
    << <<"F", "N", ":", "A">>, <<"E", "N", "D", ":", "V", "C", "A", "R", "D">> >>,
    << <<"E", "N", "D", ":", "V", "C", "A", "R", "D">> >>,
    \* 8: an unsupported version
    << <<"V", "E", "R", "S", "I", "O", "N", ":", "3", ".", "0">> >>,
    \* 9: another component's END
    << <<"e", "n", "d", ":", "v", "E", "v", "e", "n", "t">> >>,
    \* 10: a blank line; 11: a line of whitespace
    << <<>> >>,
    << <<SP, TAB>> >>,
    \* 12: a line without a colon
    << <<"N", "O", "T", "E">> >>
>>

SegmentChoices == UNION {[1..n -> 1..Len(SegmentPool)] : n \in 0..MaxSegments}

TextOf(choice) == JoinLines(Concat([i \in 1..Len(choice) |-> SegmentPool[choice[i]]]))

Inputs == {TextOf(c) : c \in SegmentChoices}

\* texts of a later call on the same instance (besides the same text again)
ReuseInputs == {TextOf(c) : c \in {<<>>, <<1>>, <<2, 1>>, <<5>>, <<1, 12>>, <<4, 9>>}}

-----------------------------------------------------------------------------
(* The parser as a state machine *)

NoOut == [tag |-> "none"]
NoPrev == [kind |-> "none", current_line |-> 0, lines |-> 0]

Init ==
    /\ text = <<>>
    /\ lines = <<>>
    /\ current_line = 0
    /\ vcards = <<>>
    /\ vcard = VCardObject
    /\ pc = "idle"
    /\ result = NoResult
    /\ calls = 0
    /\ prev = NoPrev
    /\ arg = <<>>
    /\ out = NoOut

ParseBegin_keep_cursor ==
    /\ pc \in {"idle", "done"}
    /\ calls < MaxCalls
    /\ \E t \in (IF calls = 0 THEN Inputs ELSE ReuseInputs \cup {text}) :
          /\ text' = t
          /\ lines' = unfold_lines(t)
    /\ current_line' = current_line
    /\ vcards' = <<>>
    /\ vcard' = VCardObject
    /\ result' = NoResult
    /\ pc' = "await"
    /\ calls' = calls + 1
    /\ prev' = [kind |-> result.kind, current_line |-> current_line, lines |-> Len(lines)]
    /\ UNCHANGED <<arg, out>>

\* parse is called (lines 181-185)
ParseBegin ==
    /\ pc \in {"idle", "done"}
    /\ calls < MaxCalls
    /\ \E t \in (IF calls = 0 THEN Inputs ELSE ReuseInputs \cup {text}) :
          /\ text' = t
          /\ lines' = unfold_lines(t)
    /\ current_line' = 0
    /\ vcards' = <<>>
    /\ vcard' = VCardObject
    /\ result' = NoResult
    /\ pc' = "await"
    /\ calls' = calls + 1
    /\ prev' = [kind |-> result.kind, current_line |-> current_line, lines |-> Len(lines)]
    /\ UNCHANGED <<arg, out>>

\* parse between components: one iteration of its while loop, or its return
ParseStep ==
    /\ pc = "await"
    /\ LET o == parse_iter(lines, current_line, vcards) IN
       /\ current_line' = o.current_line
       /\ IF o.tag = "begin"
          THEN /\ vcard' = VCardObject
               /\ pc' = "comp"
               /\ UNCHANGED result
          ELSE /\ result' = parse_return(o, vcards)
               /\ pc' = "done"
               /\ UNCHANGED vcard
    /\ UNCHANGED <<text, lines, vcards, calls, prev, arg, out>>

\* parse_component: one iteration of its while loop, or its return to parse
ComponentStep ==
    /\ pc = "comp"
    /\ LET o == component_iter(lines, current_line, vcard) IN
       /\ current_line' = o.current_line
       /\ vcard' = o.vcard
       /\ IF o.tag = "continue"
          THEN UNCHANGED <<vcards, pc, result>>
          ELSE IF o.tag = "return"
          THEN /\ vcards' = Append(vcards, o.vcard)
               /\ pc' = "await"
               /\ UNCHANGED result
          ELSE /\ result' = parse_return(o, vcards)
               /\ pc' = IF o.tag = "panic" THEN "panicked" ELSE "done"
               /\ UNCHANGED vcards
    /\ UNCHANGED <<text, lines, calls, prev, arg, out>>

Next == ParseBegin \/ ParseStep \/ ComponentStep

Spec == Init /\ [][Next]_vars

-----------------------------------------------------------------------------
(* The property tokenizer on its own: every short line over TokChars *)

TokChars == {<<"a">>, <<";">>, <<":">>, <<DQUOTE>>, Sect}

TokLines == {Concat(cs) : cs \in UNION {[1..n -> TokChars] : n \in 1..MaxTokLen}}

InitUnit ==
    /\ text = <<>>
    /\ lines = <<>>
    /\ current_line = 0
    /\ vcards = <<>>
    /\ vcard = VCardObject
    /\ pc = "idle"
    /\ result = NoResult
    /\ calls = 0
    /\ prev = NoPrev
    /\ arg \in TokLines
    /\ out = NoOut

\* parse_property is handed the line `arg`, up to the name/parameter cut
Tokenize ==
    /\ out.tag = "none"
    /\ out' = tokenize(arg)
    /\ UNCHANGED <<text, lines, current_line, vcards, vcard, pc, result, calls, prev, arg>>

NextUnit == Tokenize

SpecUnit == InitUnit /\ [][NextUnit]_vars

-----------------------------------------------------------------------------
(* One parse call on a component that holds one generated property line *)

\* pieces joined by the separator sep
RECURSIVE Join(_, _)
Join(ss, sep) ==
    IF ss = <<>> THEN <<>>
    ELSE IF Len(ss) = 1 THEN ss[1]
    ELSE ss[1] \o sep \o Join(Tail(ss), sep)

\* parameter clauses the generated lines are made of
ClausePool == <<
    <<"T", "Y", "P", "E", "=", "w", "o", "r", "k", ",", "f", "a", "x">>,
    <<"t", "y", "p", "e", "=", "h", "o", "m", "e">>,
    <<"T", "y", "p", "e", "=", "f", "a", "x", ",", "F", "a", "x">>,
    <<"X", "=", DQUOTE, "a", ";", "b", DQUOTE>>,
    <<"X", "=", DQUOTE, ":", DQUOTE>>,
    <<"X", "=", DQUOTE, "a">>,
    <<"X", "=", SectLead, SectCont>>,
    <<"X", "=">>,
    <<"=", "x">>,
    <<"H", "O", "M", "E">>,
    <<>>,
    <<"X", "=", DQUOTE, "a", ",", "b", DQUOTE>>,
    <<"X", "=", "a", DQUOTE, "b", ",", "c", DQUOTE>>
>>

NamePool == { <<"T", "E", "L">>, <<>>, Sect }

\* the end of a line: a colon and a value, or nothing
TailPool == { <<":", "1">>, <<>> }

\* parameter segments of at most MaxClauses clauses
SegmentsOfClauses ==
    {Join([i \in 1..Len(c) |-> ClausePool[c[i]]], <<";">>) :
        c \in UNION {[1..n -> 1..Len(ClausePool)] : n \in 0..MaxClauses}}

ParamLines ==
    {n \o t : n \in NamePool, t \in TailPool}
    \cup {n \o <<";">> \o s \o t : n \in NamePool, s \in SegmentsOfClauses, t \in TailPool}

\* raw values: every string of at most MaxValLen characters of ValChars, and
\* the value  a\,b\;c\\d\ne
ValChars == {BACKSLASH, "n", "N", ";", ",", "t"}

EscapedSample ==
    <<"a", BACKSLASH, ",", "b", BACKSLASH, ";", "c", BACKSLASH, BACKSLASH, "d",
      BACKSLASH, "n", "e">>

RawValues ==
    UNION {[1..n -> ValChars] : n \in 0..MaxValLen} \cup {EscapedSample}

ValueLines == {<<"N", ":">> \o v : v \in RawValues}

\* a component with VERSION and FN that holds the line l
Wrap(l) ==
    JoinLines(<< BeginVcard, NameVERSION \o <<":">> \o V40, NameFN \o <<":", "A">>, l,
                 EndPrefix \o Vcard >>)

LineTexts == {Wrap(l) : l \in ParamLines \cup ValueLines}

InitLine ==
    /\ text = <<>>
    /\ lines = <<>>
    /\ current_line = 0
    /\ vcards = <<>>
    /\ vcard = VCardObject
    /\ pc = "idle"
    /\ result = NoResult
    /\ calls = 0
    /\ prev = NoPrev
    /\ arg \in LineTexts
    /\ out = NoOut

\* parse is called with the text `arg` (lines 181-185)
ParseArg ==
    /\ pc = "idle"
    /\ text' = arg
    /\ lines' = unfold_lines(arg)
    /\ current_line' = 0
    /\ vcards' = <<>>
    /\ vcard' = VCardObject
    /\ result' = NoResult
    /\ pc' = "await"
    /\ calls' = calls + 1
    /\ prev' = [kind |-> result.kind, current_line |-> current_line, lines |-> Len(lines)]
    /\ UNCHANGED <<arg, out>>

NextLine == ParseArg \/ ParseStep \/ ComponentStep

SpecLine == InitLine /\ [][NextLine]_vars

-----------------------------------------------------------------------------
(* One parse call on a short text of letters, whitespace and line breaks *)

TextBytes == {"a", SP, TAB, CR, LF}

ShortTexts == UNION {[1..n -> TextBytes] : n \in 0..MaxTextLen}

InitText ==
    /\ text = <<>>
    /\ lines = <<>>
    /\ current_line = 0
    /\ vcards = <<>>
    /\ vcard = VCardObject
    /\ pc = "idle"
    /\ result = NoResult
    /\ calls = 0
    /\ prev = NoPrev
    /\ arg \in ShortTexts \cup ReuseInputs
    /\ out = NoOut

SpecText == InitText /\ [][NextLine]_vars

-----------------------------------------------------------------------------
(* The unfolder on its own: a logical line folded once *)

FoldChars == {<<"a">>, <<SP>>, <<TAB>>, Sect}

\* the ways of cutting a logical line (no whitespace at either end, no line
\* break) between two of its characters: the part before and the part after
FoldCuts ==
    {[a |-> Concat(SubSeq(cs, 1, k)), b |-> Concat(SubSeq(cs, k + 1, Len(cs)))] :
        <<cs, k>> \in
            UNION {{<<c, j>> : c \in {d \in [1..n -> FoldChars] :
                                          /\ ~IsWhitespace(d[1][1])
                                          /\ ~IsWhitespace(d[n][1])},
                               j \in 0..n} : n \in 1..MaxLineLen}}

LineEnds == {<<LF>>, <<CR, LF>>}

\* a cut, the whitespace character that marks the continuation line, and
\* the line ends of the two physical lines
FoldCases ==
    {[a |-> c.a, b |-> c.b, ws |-> w, end1 |-> e1, end2 |-> e2] :
        c \in FoldCuts, w \in {SP, TAB}, e1 \in LineEnds, e2 \in LineEnds}

\* the two physical lines
Folded(c) == c.a \o c.end1 \o <<c.ws>> \o c.b \o c.end2

InitFold ==
    /\ text = <<>>
    /\ lines = <<>>
    /\ current_line = 0
    /\ vcards = <<>>
    /\ vcard = VCardObject
    /\ pc = "idle"
    /\ result = NoResult
    /\ calls = 0
    /\ prev = NoPrev
    /\ arg \in FoldCases
    /\ out = NoOut

\* unfold_lines is handed the two physical lines of the case `arg`
Unfold ==
    /\ out.tag = "none"
    /\ out' = [tag |-> "lines", lines |-> unfold_lines(Folded(arg))]
    /\ UNCHANGED <<text, lines, current_line, vcards, vcard, pc, result, calls, prev, arg>>

NextFold == Unfold

SpecFold == InitFold /\ [][NextFold]_vars

-----------------------------------------------------------------------------
(* A record filled by add_property, from a caller and from parsed lines *)

\* names and values a caller hands to VCardProperty::new
CallerNames == {<<"T", "E", "L">>, <<"t", "e", "l">>, <<"E", "m", "a", "i", "l">>}
CallerValues == {<<"1">>, <<"2">>}

\* property lines of a component
RecordLines ==
    {<<"T", "E", "L", ":", "3">>,
     <<"t", "e", "l", ";", "T", "Y", "P", "E", "=", "x", ":", "4">>,
     <<"e", "m", "a", "i", "l", ":", "5">>}

\* `arg` is the sequence of properties handed to add_property so far
InitRecord ==
    /\ text = <<>>
    /\ lines = <<>>
    /\ current_line = 0
    /\ vcards = <<>>
    /\ vcard = VCardObject
    /\ pc = "idle"
    /\ result = NoResult
    /\ calls = 0
    /\ prev = NoPrev
    /\ arg = <<>>
    /\ out = NoOut

\* vcard.add_property(VCardProperty::new(name, value)), as the builder and
\* the tests do
AddNew ==
    /\ Len(arg) < MaxAdds
    /\ \E name \in CallerNames, value \in CallerValues :
          /\ vcard' = add_property(vcard, VCardProperty(name, value))
          /\ arg' = Append(arg, VCardProperty(name, value))
    /\ UNCHANGED <<text, lines, current_line, vcards, pc, result, calls, prev, out>>

\* lines 273-274 of parse_component: the property of a parsed line is added
AddParsed ==
    /\ Len(arg) < MaxAdds
    /\ \E line \in RecordLines :
          /\ parse_property(line).tag = "ok"
          /\ vcard' = add_property(vcard, parse_property(line).property)
          /\ arg' = Append(arg, parse_property(line).property)
    /\ UNCHANGED <<text, lines, current_line, vcards, pc, result, calls, prev, out>>

NextRecord == AddNew \/ AddParsed

SpecRecord == InitRecord /\ [][NextRecord]_vars

-----------------------------------------------------------------------------
(* Construction API (VCardBuilder) *)

\* the most calls of a builder chain
MaxBuilderCalls == 2

\* TelType::as_str, EmailType::as_str, AdrType::as_str; a variant is written
\* by its name
TelType_as_str(t) ==
    CASE t = <<"T", "e", "x", "t">> -> <<"t", "e", "x", "t">>
      [] t = <<"V", "o", "i", "c", "e">> -> <<"v", "o", "i", "c", "e">>
      [] t = <<"F", "a", "x">> -> <<"f", "a", "x">>
      [] t = <<"C", "e", "l", "l">> -> <<"c", "e", "l", "l">>
      [] t = <<"V", "i", "d", "e", "o">> -> <<"v", "i", "d", "e", "o">>
      [] t = <<"P", "a", "g", "e", "r">> -> <<"p", "a", "g", "e", "r">>
      [] t = <<"T", "e", "x", "t", "P", "h", "o", "n", "e">> -> <<"t", "e", "x", "t", "p", "h", "o", "n", "e">>
      [] t = <<"W", "o", "r", "k">> -> <<"w", "o", "r", "k">>
      [] t = <<"H", "o", "m", "e">> -> <<"h", "o", "m", "e">>

EmailType_as_str(t) ==
    CASE t = <<"W", "o", "r", "k">> -> <<"w", "o", "r", "k">>
      [] t = <<"H", "o", "m", "e">> -> <<"h", "o", "m", "e">>
      [] t = <<"I", "n", "t", "e", "r", "n", "e", "t">> -> <<"i", "n", "t", "e", "r", "n", "e", "t">>

AdrType_as_str(t) ==
    CASE t = <<"W", "o", "r", "k">> -> <<"w", "o", "r", "k">>
      [] t = <<"H", "o", "m", "e">> -> <<"h", "o", "m", "e">>
      [] t = <<"P", "o", "s", "t", "a", "l">> -> <<"p", "o", "s", "t", "a", "l">>
      [] t = <<"P", "a", "r", "c", "e", "l">> -> <<"p", "a", "r", "c", "e", "l">>
      [] t = <<"D", "o", "m">> -> <<"d", "o", "m">>
      [] t = <<"I", "n", "t", "l">> -> <<"i", "n", "t", "l">>

\* for t in types { prop.add_parameter("TYPE", t.as_str()) }, tags being the
\* strings of the types from the i-th on
RECURSIVE add_type_parameters(_, _, _)
add_type_parameters(prop, tags, i) ==
    IF i > Len(tags) THEN prop
    ELSE add_type_parameters(add_parameter(prop, <<"T", "Y", "P", "E">>, tags[i]), tags, i + 1)

\* the setter body with the value trimmed first
set_property_trimmed(builder, name, value) ==
    add_property(builder, VCardProperty(name, trim(value)))

\* self.vcard.add_property(VCardProperty::new(NAME, value)), the body of
\* every setter without types
set_property(builder, name, value) ==
    add_property(builder, VCardProperty(name, value))

\* the body of telephone, email, address and address_parts
set_typed_property(builder, name, value, tags) ==
    add_property(builder, add_type_parameters(VCardProperty(name, value), tags, 1))

\* build with the parse path's validation in front of it
VCardBuilder_build_validating(builder) ==
    IF validate_vcard(builder) # NoError
    THEN [tag |-> "failed", vcard |-> VCardObject]
    ELSE [tag |-> "built", vcard |-> builder]

\* VCardBuilder::build
VCardBuilder_build(builder) == [tag |-> "built", vcard |-> builder]

\* what the chains are made of
VersionValues == {V40, <<"3", ".", "0">>}
RawText == <<SP, "a", BACKSLASH, "n", ";", SP>>
FormattedNames == {<<"A">>, RawText}
NameParts == <<<<"D", "o", "e">>, <<"J">>, <<>>, RawText, <<>>>>
AddressParts == <<<<>>, <<>>, <<"1", SP, "M">>, <<"S">>, <<"I", "L">>, <<"6">>, RawText>>
TelTypeLists == {<<>>, <<<<"W", "o", "r", "k">>, <<"V", "o", "i", "c", "e">>>>, <<<<"V", "o", "i", "c", "e">>, <<"W", "o", "r", "k">>>>}
EmailTypeLists == {<<<<"W", "o", "r", "k">>>>, <<<<"H", "o", "m", "e">>, <<"I", "n", "t", "e", "r", "n", "e", "t">>>>}
AdrTypeLists == {<<<<"H", "o", "m", "e">>>>, <<<<"H", "o", "m", "e">>, <<"H", "o", "m", "e">>>>}
CustomNames == {<<"x", "-", "a">>, <<"f", "n">>}

NoTypes == <<>>
NoParts == <<>>

\* one call of a chain: the builder becomes b and the call is noted in arg
BuilderCall(method, name, value, parts, types, b) ==
    /\ out = NoOut
    /\ Len(arg) < MaxBuilderCalls
    /\ vcard' = b
    /\ arg' = Append(arg, [method |-> method, name |-> name, value |-> value,
                           parts |-> parts, types |-> types])
    /\ UNCHANGED <<text, lines, current_line, vcards, pc, result, calls, prev, out>>

\* VCardBuilder::new
InitBuilder ==
    /\ text = <<>>
    /\ lines = <<>>
    /\ current_line = 0
    /\ vcards = <<>>
    /\ vcard = VCardObject
    /\ pc = "idle"
    /\ result = NoResult
    /\ calls = 0
    /\ prev = NoPrev
    /\ arg = <<>>
    /\ out = NoOut

VCardBuilder_version ==
    \E v \in VersionValues :
        BuilderCall("version", NameVERSION, v, NoParts, NoTypes,
                    set_property(vcard, NameVERSION, v))

VCardBuilder_formatted_name ==
    \E v \in FormattedNames :
        BuilderCall("formatted_name", NameFN, v, NoParts, NoTypes,
                    set_property(vcard, NameFN, v))

VCardBuilder_name ==
    BuilderCall("name", <<"N">>, RawText, NoParts, NoTypes,
                set_property(vcard, <<"N">>, RawText))

VCardBuilder_name_parts ==
    BuilderCall("name_parts", <<"N">>, <<>>, NameParts, NoTypes,
                set_property(vcard, <<"N">>, Join(NameParts, <<";">>)))

VCardBuilder_telephone ==
    \E types \in TelTypeLists :
        BuilderCall("telephone", <<"T", "E", "L">>, <<"1">>, NoParts, types,
                    set_typed_property(vcard, <<"T", "E", "L">>, <<"1">>,
                        [i \in 1..Len(types) |-> TelType_as_str(types[i])]))

VCardBuilder_email ==
    \E types \in EmailTypeLists :
        BuilderCall("email", <<"E", "M", "A", "I", "L">>, <<"a", "@", "b">>, NoParts, types,
                    set_typed_property(vcard, <<"E", "M", "A", "I", "L">>, <<"a", "@", "b">>,
                        [i \in 1..Len(types) |-> EmailType_as_str(types[i])]))

VCardBuilder_address ==
    \E types \in AdrTypeLists :
        BuilderCall("address", <<"A", "D", "R">>, RawText, NoParts, types,
                    set_typed_property(vcard, <<"A", "D", "R">>, RawText,
                        [i \in 1..Len(types) |-> AdrType_as_str(types[i])]))

VCardBuilder_address_parts ==
    \E types \in AdrTypeLists :
        BuilderCall("address_parts", <<"A", "D", "R">>, <<>>, AddressParts, types,
                    set_typed_property(vcard, <<"A", "D", "R">>, Join(AddressParts, <<";">>),
                        [i \in 1..Len(types) |-> AdrType_as_str(types[i])]))

VCardBuilder_organization ==
    BuilderCall("organization", <<"O", "R", "G">>, RawText, NoParts, NoTypes,
                set_property(vcard, <<"O", "R", "G">>, RawText))

VCardBuilder_title ==
    BuilderCall("title", <<"T", "I", "T", "L", "E">>, RawText, NoParts, NoTypes,
                set_property(vcard, <<"T", "I", "T", "L", "E">>, RawText))

VCardBuilder_role ==
    BuilderCall("role", <<"R", "O", "L", "E">>, RawText, NoParts, NoTypes,
                set_property(vcard, <<"R", "O", "L", "E">>, RawText))

VCardBuilder_nickname ==
    BuilderCall("nickname", <<"N", "I", "C", "K", "N", "A", "M", "E">>, RawText, NoParts, NoTypes,
                set_property(vcard, <<"N", "I", "C", "K", "N", "A", "M", "E">>, RawText))

VCardBuilder_photo ==
    BuilderCall("photo", <<"P", "H", "O", "T", "O">>, RawText, NoParts, NoTypes,
                set_property(vcard, <<"P", "H", "O", "T", "O">>, RawText))

VCardBuilder_birthday ==
    BuilderCall("birthday", <<"B", "D", "A", "Y">>, RawText, NoParts, NoTypes,
                set_property(vcard, <<"B", "D", "A", "Y">>, RawText))

VCardBuilder_anniversary ==
    BuilderCall("anniversary", <<"A", "N", "N", "I", "V", "E", "R", "S", "A", "R", "Y">>, RawText, NoParts, NoTypes,
                set_property(vcard, <<"A", "N", "N", "I", "V", "E", "R", "S", "A", "R", "Y">>, RawText))

VCardBuilder_gender ==
    BuilderCall("gender", <<"G", "E", "N", "D", "E", "R">>, RawText, NoParts, NoTypes,
                set_property(vcard, <<"G", "E", "N", "D", "E", "R">>, RawText))

VCardBuilder_url ==
    BuilderCall("url", <<"U", "R", "L">>, RawText, NoParts, NoTypes,
                set_property(vcard, <<"U", "R", "L">>, RawText))

VCardBuilder_note ==
    BuilderCall("note", <<"N", "O", "T", "E">>, RawText, NoParts, NoTypes,
                set_property(vcard, <<"N", "O", "T", "E">>, RawText))

VCardBuilder_uid ==
    BuilderCall("uid", <<"U", "I", "D">>, RawText, NoParts, NoTypes,
                set_property(vcard, <<"U", "I", "D">>, RawText))

VCardBuilder_categories ==
    BuilderCall("categories", <<"C", "A", "T", "E", "G", "O", "R", "I", "E", "S">>, RawText, NoParts, NoTypes,
                set_property(vcard, <<"C", "A", "T", "E", "G", "O", "R", "I", "E", "S">>, RawText))

VCardBuilder_revision ==
    BuilderCall("revision", <<"R", "E", "V">>, RawText, NoParts, NoTypes,
                set_property(vcard, <<"R", "E", "V">>, RawText))

VCardBuilder_custom_property ==
    \E name \in CustomNames :
        BuilderCall("custom_property", name, RawText, NoParts, NoTypes,
                    set_property(vcard, name, RawText))

\* build(self) consumes the builder: no call follows it
Build ==
    /\ out = NoOut
    /\ out' = VCardBuilder_build(vcard)
    /\ UNCHANGED <<text, lines, current_line, vcards, vcard, pc, result, calls, prev, arg>>

NextBuilder ==
    \/ VCardBuilder_version
    \/ VCardBuilder_formatted_name
    \/ VCardBuilder_name
    \/ VCardBuilder_name_parts
    \/ VCardBuilder_telephone
    \/ VCardBuilder_email
    \/ VCardBuilder_address
    \/ VCardBuilder_address_parts
    \/ VCardBuilder_organization
    \/ VCardBuilder_title
    \/ VCardBuilder_role
    \/ VCardBuilder_nickname
    \/ VCardBuilder_photo
    \/ VCardBuilder_birthday
    \/ VCardBuilder_anniversary
    \/ VCardBuilder_gender
    \/ VCardBuilder_url
    \/ VCardBuilder_note
    \/ VCardBuilder_uid
    \/ VCardBuilder_categories
    \/ VCardBuilder_revision
    \/ VCardBuilder_custom_property
    \/ Build

SpecBuilder == InitBuilder /\ [][NextBuilder]_vars

-----------------------------------------------------------------------------
(* What the claims speak of, written from their wording *)

Finished == pc \in {"done", "panicked"}

MsgNoData == ParseError("No vCard data found", <<>>)
MsgUnexpectedEnd == ParseError("Unexpected end of input while parsing VCARD", <<>>)
MsgMissingVersion ==
    ParseError("Missing required VERSION property (RFC 6350 Section 6.7.9). vCard must include VERSION:4.0", <<>>)
MsgMissingFN ==
    ParseError("Missing required FN (Formatted Name) property (RFC 6350 Section 6.2.1). vCard must include FN property.", <<>>)
MsgUnsupported(found) ==
    ParseError("Unsupported vCard version: {}. Only version 4.0 is supported (see ADR 0004).", found)
MsgMismatchedEnd(end_type) ==
    ParseError("Mismatched END tag: expected END:VCARD but got END:{}", end_type)
MsgExpectedBegin(line) == ParseError("Expected BEGIN:VCARD but got: {}", line)
MsgMissingColon(line) == ParseError("Invalid property line (missing colon): {}", line)
MsgMissingEquals(clause) == ParseError("Invalid parameter (missing equals): {}", clause)

\* the logical line the cursor is at
Line == lines[current_line + 1]

\* END: in any letter case at the start of l
HasEndPrefix(l) ==
    /\ Len(l) >= 4
    /\ l[1] \in {"E", "e"} /\ l[2] \in {"N", "n"} /\ l[3] \in {"D", "d"} /\ l[4] = ":"

\* the text after END:, uppercased
EndType(l) == to_uppercase(SubSeq(l, 5, Len(l)))

NameChars ==
    {LowerCase[i] : i \in 1..26} \cup {UpperCase[i] : i \in 1..26}
    \cup {"0", "1", "2", "3", "4", "5", "6", "7", "8", "9", "-"}

\* RFC 6350 content line  name *(";" pname "=" pvalue *("," pvalue)) ":" value
\* with pvalue a quoted string or a run of bytes other than " ; : ,
RECURSIVE ContentLineFrom(_, _, _)
ContentLineFrom(l, p, st) ==
    IF p > Len(l) THEN FALSE
    ELSE LET b == l[p] IN
    CASE st = "name0" -> b \in NameChars /\ ContentLineFrom(l, p + 1, "name")
      [] st = "name" ->
            \/ b = ":"
            \/ (b = ";" /\ ContentLineFrom(l, p + 1, "pname0"))
            \/ (b \in NameChars /\ ContentLineFrom(l, p + 1, "name"))
      [] st = "pname0" -> b \in NameChars /\ ContentLineFrom(l, p + 1, "pname")
      [] st = "pname" ->
            \/ (b = "=" /\ ContentLineFrom(l, p + 1, "pvalue0"))
            \/ (b \in NameChars /\ ContentLineFrom(l, p + 1, "pname"))
      [] st = "pvalue0" ->
            IF b = DQUOTE THEN ContentLineFrom(l, p + 1, "quoted")
            ELSE ContentLineFrom(l, p, "pvalue")
      [] st = "pvalue" ->
            \/ b = ":"
            \/ (b = "," /\ ContentLineFrom(l, p + 1, "pvalue0"))
            \/ (b = ";" /\ ContentLineFrom(l, p + 1, "pname0"))
            \/ (b \notin {":", ",", ";", DQUOTE} /\ ContentLineFrom(l, p + 1, "pvalue"))
      [] st = "quoted" ->
            IF b = DQUOTE THEN ContentLineFrom(l, p + 1, "qend")
            ELSE ContentLineFrom(l, p + 1, "quoted")
      [] st = "qend" ->
            \/ b = ":"
            \/ (b = "," /\ ContentLineFrom(l, p + 1, "pvalue0"))
            \/ (b = ";" /\ ContentLineFrom(l, p + 1, "pname0"))

IsBeginLine(l) == to_uppercase(l) = BeginVcard
IsEndLine(l) == HasEndPrefix(l) /\ EndType(l) = Vcard
IsContentLine(l) ==
    /\ ContentLineFrom(l, 1, "name0")
    /\ ~starts_with(to_uppercase(l), <<"B", "E", "G", "I", "N", ":">>)
    /\ ~HasEndPrefix(l)
IsVersion40Line(l) == l = NameVERSION \o <<":">> \o V40
IsVersionLine(l) == starts_with(to_uppercase(l), NameVERSION \o <<":">>)
IsFNLine(l) == starts_with(to_uppercase(l), NameFN \o <<":">>)

\* a block body of a well-formed component: content lines, one VERSION line
\* that is VERSION:4.0, an FN line
IsGoodBody(body) ==
    /\ \A i \in 1..Len(body) : IsContentLine(body[i])
    /\ Cardinality({i \in 1..Len(body) : IsVersionLine(body[i])}) = 1
    /\ \E i \in 1..Len(body) : IsVersion40Line(body[i])
    /\ \E i \in 1..Len(body) : IsFNLine(body[i])

\* the bodies of the blocks of the physical lines ph[i..], in order;
\* ok is FALSE when ph is not a run of well-formed blocks and blank lines
RECURSIVE BlocksFrom(_, _, _, _, _)
BlocksFrom(ph, i, blocks, open, body) ==
    IF i > Len(ph) THEN [ok |-> ~open /\ blocks # <<>>, blocks |-> blocks]
    ELSE IF ~open
    THEN (IF ph[i] = <<>> THEN BlocksFrom(ph, i + 1, blocks, FALSE, <<>>)
          ELSE IF IsBeginLine(ph[i]) THEN BlocksFrom(ph, i + 1, blocks, TRUE, <<>>)
          ELSE [ok |-> FALSE, blocks |-> <<>>])
    ELSE (IF IsEndLine(ph[i])
          THEN (IF IsGoodBody(body)
                THEN BlocksFrom(ph, i + 1, Append(blocks, body), FALSE, <<>>)
                ELSE [ok |-> FALSE, blocks |-> <<>>])
          ELSE IF IsContentLine(ph[i])
          THEN BlocksFrom(ph, i + 1, blocks, TRUE, Append(body, ph[i]))
          ELSE [ok |-> FALSE, blocks |-> <<>>])

WellFormedBlocks(t) == BlocksFrom(str_lines(t), 1, <<>>, FALSE, <<>>)

\* the record built from the lines of one block, in order
RECURSIVE RecordFrom(_, _, _)
RecordFrom(body, i, object) ==
    IF i > Len(body) THEN object
    ELSE RecordFrom(body, i + 1, add_property(object, parse_property(body[i]).property))

RecordOf(body) == RecordFrom(body, 1, VCardObject)

\* position (1-based) of the first byte b of s outside double quotes, 0 if none
RECURSIVE FirstOutsideQuotes(_, _, _, _)
FirstOutsideQuotes(s, b, p, quoted) ==
    IF p > Len(s) THEN 0
    ELSE IF s[p] = DQUOTE THEN FirstOutsideQuotes(s, b, p + 1, ~quoted)
    ELSE IF s[p] = b /\ ~quoted THEN p
    ELSE FirstOutsideQuotes(s, b, p + 1, quoted)

AllWhitespace(t) == \A i \in 1..Len(t) : IsWhitespace(t[i])

\* the pieces of s between the bytes b that lie outside double quotes; what
\* follows the last such b is a piece unless it is empty
RECURSIVE PiecesOutsideQuotes(_, _)
PiecesOutsideQuotes(s, b) ==
    IF s = <<>> THEN <<>>
    ELSE LET p == FirstOutsideQuotes(s, b, 1, FALSE) IN
         IF p = 0 THEN <<s>>
         ELSE <<SubSeq(s, 1, p - 1)>> \o PiecesOutsideQuotes(SubSeq(s, p + 1, Len(s)), b)

\* the parameter clauses of a parameter segment
Clauses(segment) == PiecesOutsideQuotes(segment, ";")

HasByte(s, b) == \E i \in 1..Len(s) : s[i] = b

\* the pieces of s between the bytes b
RECURSIVE PiecesAt(_, _)
PiecesAt(s, b) ==
    IF ~HasByte(s, b) THEN <<s>>
    ELSE LET p == CHOOSE q \in 1..Len(s) : s[q] = b /\ \A k \in 1..(q - 1) : s[k] # b
         IN <<SubSeq(s, 1, p - 1)>> \o PiecesAt(SubSeq(s, p + 1, Len(s)), b)

\* how many physical lines of t hold a byte that is not whitespace
NonBlankPhysicalLines(t) ==
    Cardinality({i \in 1..Len(PiecesAt(t, LF)) : ~AllWhitespace(PiecesAt(t, LF)[i])})

\* the properties of ps[i..] whose uppercased name is N, in order
RECURSIVE NamedIn(_, _, _)
NamedIn(ps, i, N) ==
    IF i > Len(ps) THEN <<>>
    ELSE (IF to_uppercase(ps[i].name) = N THEN <<ps[i]>> ELSE <<>>) \o NamedIn(ps, i + 1, N)

\* names a record is asked for
QueryNames ==
    {<<"T", "E", "L">>, <<"t", "e", "l">>, <<"T", "e", "l">>, <<"e", "m", "a", "i", "l">>,
     <<"A", "D", "R">>}

\* no line of ls is empty or has whitespace at an end
AllTrimmed(ls) ==
    \A i \in 1..Len(ls) :
        /\ ls[i] # <<>>
        /\ ~IsWhitespace(ls[i][1])
        /\ ~IsWhitespace(ls[i][Len(ls[i])])

\* the cursor is at a property line of an open component, and the tokenizer
\* hands a parameter segment to the parameter decoder
AtLineWithParams ==
    /\ pc = "comp"
    /\ current_line < Len(lines)
    /\ ~HasEndPrefix(Line)
    /\ tokenize(Line).tag = "ok"
    /\ tokenize(Line).has_params

\* the cursor is at a property line of an open component that the
\* tokenizer cuts into name, parameters and raw value
AtLineTokenized ==
    /\ pc = "comp"
    /\ current_line < Len(lines)
    /\ ~HasEndPrefix(Line)
    /\ tokenize(Line).tag = "ok"

\* that raw value
RawValue == tokenize(Line).value

\* s with every backslash that is followed by x replaced, together with x,
\* by y, going from left to right
RECURSIVE Substituted(_, _, _)
Substituted(s, x, y) ==
    IF s = <<>> THEN <<>>
    ELSE IF Len(s) >= 2 /\ s[1] = BACKSLASH /\ s[2] = x
    THEN <<y>> \o Substituted(SubSeq(s, 3, Len(s)), x, y)
    ELSE <<s[1]>> \o Substituted(Tail(s), x, y)

\* s holds a backslash followed by one of n N ; , backslash
HasEscape(s) ==
    \E i \in 1..(Len(s) - 1) :
        s[i] = BACKSLASH /\ s[i + 1] \in {"n", "N", ";", ",", BACKSLASH}

\* that parameter segment
ParamsPart == tokenize(Line).params_part

\* the property the step from this state to the next stores in the record:
\* the last one under the name the tokenizer cut
StoredName == tokenize(Line).property_name
Stored == vcard'[StoredName][Len(vcard'[StoredName])]

\* name and raw value of a clause that has a '='
ClauseName(c) == SubSeq(c, 1, find(c, "="))
ClauseValue(c) == SubSeq(c, find(c, "=") + 2, Len(c))

\* a clause NAME="text" whose text has no quote and no comma
IsQuotedClause(c) ==
    /\ HasByte(c, "=")
    /\ Len(ClauseValue(c)) >= 2
    /\ ClauseValue(c)[1] = DQUOTE
    /\ ClauseValue(c)[Len(ClauseValue(c))] = DQUOTE
    /\ \A j \in 2..(Len(ClauseValue(c)) - 1) : ClauseValue(c)[j] \notin {DQUOTE, ","}

QuotedText(c) == SubSeq(ClauseValue(c), 2, Len(ClauseValue(c)) - 1)

\* a clause NAME=v1,...,vn: no quote, and no value empty
IsPlainClause(c) ==
    /\ HasByte(c, "=")
    /\ ~HasByte(ClauseValue(c), DQUOTE)
    /\ ClauseValue(c) # <<>>
    /\ ClauseValue(c)[1] # ","
    /\ ClauseValue(c)[Len(ClauseValue(c))] # ","
    /\ \A j \in 1..(Len(ClauseValue(c)) - 1) :
          ~(ClauseValue(c)[j] = "," /\ ClauseValue(c)[j + 1] = ",")

\* its values, in order
PlainValues(c) == PiecesOutsideQuotes(ClauseValue(c), ",")

\* the values of the clauses cl[i..] whose name is K in any letter case
RECURSIVE ValuesUnder(_, _, _)
ValuesUnder(cl, i, K) ==
    IF i > Len(cl) THEN <<>>
    ELSE (IF to_uppercase(ClauseName(cl[i])) = K THEN PlainValues(cl[i]) ELSE <<>>)
         \o ValuesUnder(cl, i + 1, K)

-----------------------------------------------------------------------------
(* Claims *)

\* C1: an input of N >= 1 well-formed blocks (blank lines between them
\* allowed), each with a VERSION:4.0 line and an FN line, parses to exactly N
\* records, the i-th built from the i-th block.
C1_WellFormedBlocksParse ==
    (Finished /\ WellFormedBlocks(text).ok) =>
        LET blocks == WellFormedBlocks(text).blocks IN
        /\ result.kind = "ok"
        /\ Len(result.records) = Len(blocks)
        /\ \A i \in 1..Len(blocks) : result.records[i] = RecordOf(blocks[i])

\* C2: a failure of any component (structural, syntax, validation) ends the
\* call with that one error and no records, also when components before it
\* were complete and validated.
C2_AllOrNothing ==
    [][ LET failure ==
              IF pc = "comp" THEN component_iter(lines, current_line, vcard)
              ELSE parse_iter(lines, current_line, vcards)
        IN (pc \in {"comp", "await"} /\ failure.tag = "err") =>
              /\ pc' = "done"
              /\ result'.kind = "err"
              /\ result'.err = failure.err
              /\ result'.records = <<>> ]_vars

C2_Witness ==
    /\ pc = "done"
    /\ result.kind = "err"
    /\ Len(vcards) >= 1
    /\ result.err \in {MsgMissingFN, MsgExpectedBegin(<<"N", "O", "T", "E">>)}

\* C3: every record of a successful parse has exactly one VERSION property,
\* of value 4.0, and at least one FN property.
C3_ExactlyOneVersion ==
    (pc = "done" /\ result.kind = "ok") =>
        \A i \in 1..Len(result.records) :
            LET r == result.records[i] IN
            /\ NameVERSION \in DOMAIN r
            /\ Len(r[NameVERSION]) = 1
            /\ r[NameVERSION][1].value = V40
            /\ NameFN \in DOMAIN r
            /\ Len(r[NameFN]) >= 1

\* C4: at END:VCARD the validator reports the first of: no VERSION (missing
\* VERSION), VERSION not 4.0 (unsupported version, naming the value found),
\* no FN (missing FN); with none of them the component is accepted.
C4_ValidatorOrder ==
    [][ (pc = "comp" /\ current_line < Len(lines) /\ IsEndLine(Line)) =>
          LET hasVersion == NameVERSION \in DOMAIN vcard
              hasFN == NameFN \in DOMAIN vcard
              version == vcard[NameVERSION][1].value
          IN IF ~hasVersion
             THEN pc' = "done" /\ result' = Err(MsgMissingVersion)
             ELSE IF version # V40
             THEN pc' = "done" /\ result' = Err(MsgUnsupported(version))
             ELSE IF ~hasFN
             THEN pc' = "done" /\ result' = Err(MsgMissingFN)
             ELSE pc' = "await" /\ vcards' = Append(vcards, vcard) ]_vars

\* VERSION:3.0 and no FN: the unsupported version is what is reported
C4_Witness ==
    /\ pc = "done"
    /\ result = Err(MsgUnsupported(<<"3", ".", "0">>))
    /\ NameFN \notin DOMAIN vcard

\* C5: when the logical lines run out inside an open component the call
\* fails with 'Unexpected end of input', whatever the component holds and
\* however many components were completed before.
C5_UnexpectedEnd ==
    [][ (pc = "comp" /\ current_line >= Len(lines)) =>
          (pc' = "done" /\ result' = Err(MsgUnexpectedEnd)) ]_vars

C5_Witness ==
    /\ pc = "done"
    /\ result = Err(MsgUnexpectedEnd)
    /\ Len(vcards) >= 1
    /\ vcard # VCardObject

\* C6: in an open component a line starting with END: (any case) fails with
\* 'Mismatched END tag' naming the uppercased rest unless that rest is VCARD,
\* before any validation; with VCARD (any case) it closes the component.
C6_EndTag ==
    [][ (pc = "comp" /\ current_line < Len(lines) /\ HasEndPrefix(Line)) =>
          IF EndType(Line) # Vcard
          THEN pc' = "done" /\ result' = Err(MsgMismatchedEnd(EndType(Line)))
          ELSE /\ current_line' = current_line + 1
               /\ \/ pc' = "await" /\ vcards' = Append(vcards, vcard)
                  \/ /\ pc' = "done"
                     /\ \/ result' \in {Err(MsgMissingVersion), Err(MsgMissingFN)}
                        \/ \E v \in {vcard[n][1].value : n \in DOMAIN vcard} :
                              result' = Err(MsgUnsupported(v)) ]_vars

\* the mismatch is reported for a component that has neither VERSION nor FN
C6_Witness ==
    /\ pc = "done"
    /\ result = Err(MsgMismatchedEnd(<<"V", "E", "V", "E", "N", "T">>))
    /\ NameVERSION \notin DOMAIN vcard
    /\ NameFN \notin DOMAIN vcard

\* C7: between components, a next line other than BEGIN:VCARD (any case)
\* fails with 'Expected BEGIN:VCARD' carrying that line; BEGIN:VCARD opens a
\* fresh empty record.
C7_ExpectedBegin ==
    [][ (pc = "await" /\ current_line < Len(lines)) =>
          IF IsBeginLine(Line)
          THEN /\ pc' = "comp"
               /\ vcard' = VCardObject
               /\ current_line' = current_line + 1
               /\ vcards' = vcards
          ELSE pc' = "done" /\ result' = Err(MsgExpectedBegin(Line)) ]_vars

\* right after a completed component
C7_Witness ==
    /\ pc = "done"
    /\ result.kind = "err"
    /\ result.err.template = "Expected BEGIN:VCARD but got: {}"
    /\ Len(vcards) >= 1

\* C8: 'No vCard data found' is returned exactly when the input has no
\* logical line, that is when it is empty or all whitespace and line breaks.
C8_NoDataIffBlank ==
    Finished =>
        /\ (result = Err(MsgNoData)) <=> (lines = <<>>)
        /\ (lines = <<>>) <=> AllWhitespace(text)

C8_Witness ==
    /\ pc = "done"
    /\ result = Err(MsgNoData)
    /\ text # <<>>

\* C9: what a call returns is what a new parser returns for the call's text,
\* whatever the calls before it left in the instance.
C9_CallsIndependent ==
    Finished => result = ParseFresh(text)

\* a call that succeeds after one that failed inside a component
C9_Witness ==
    /\ pc = "done"
    /\ calls = 2
    /\ result.kind = "ok"
    /\ prev.kind = "err"
    /\ prev.current_line > 0
    /\ prev.current_line < prev.lines

\* C10: for a line with a colon outside quotes the tokenizer takes the text
\* before the first such colon as name and parameters and the text after it
\* as the raw value, and the text before the first semicolon outside quotes
\* of the former, uppercased, as the property name; non-ASCII characters
\* before the colon included.
C10_TokenizerCuts ==
    (out.tag # "none" /\ FirstOutsideQuotes(arg, ":", 1, FALSE) # 0) =>
        LET c == FirstOutsideQuotes(arg, ":", 1, FALSE)
            before == SubSeq(arg, 1, c - 1)
            sc == FirstOutsideQuotes(before, ";", 1, FALSE)
        IN /\ out.tag = "ok"
           /\ out.name_and_params = before
           /\ out.value = SubSeq(arg, c + 1, Len(arg))
           /\ out.property_name =
                 to_uppercase(IF sc = 0 THEN before ELSE SubSeq(before, 1, sc - 1))

\* C11: parse is total: every step of a call either returns a record sequence
\* or a ParseError, or consumes at least one logical line; no step aborts,
\* for every input text, non-ASCII characters in names, parameters and values
\* included.
C11_ParseTotal ==
    [][ (pc \in {"await", "comp"}) =>
          \/ pc' = "done" /\ result'.kind \in {"ok", "err"}
          \/ pc' \in {"await", "comp"} /\ current_line' > current_line ]_vars

\* C12: a property line of an open component without a colon outside double
\* quotes (no colon, colons only inside quotes, or an opening quote that is
\* never closed before every colon) ends the call with the 'missing colon'
\* error that carries the whole logical line.
C12_MissingColon ==
    [][ (/\ pc = "comp" /\ current_line < Len(lines)
         /\ ~HasEndPrefix(Line)
         /\ FirstOutsideQuotes(Line, ":", 1, FALSE) = 0) =>
          (pc' = "done" /\ result' = Err(MsgMissingColon(Line))) ]_vars

\* TEL;X="a:1 : the only colon follows a quote that is never closed
C12_Witness ==
    /\ pc = "done"
    /\ result = Err(MsgMissingColon(
           <<"T", "E", "L", ";", "X", "=", DQUOTE, "a", ":", "1">>))

C14_QuotedSemicolon ==
    [][ (/\ AtLineWithParams
         /\ \A i \in 1..Len(Clauses(ParamsPart)) : HasByte(Clauses(ParamsPart)[i], "=")
         /\ \E i \in 1..Len(Clauses(ParamsPart)) :
               /\ IsQuotedClause(Clauses(ParamsPart)[i])
               /\ HasByte(QuotedText(Clauses(ParamsPart)[i]), ";")) =>
          LET cl == Clauses(ParamsPart)
              nap == tokenize(Line).name_and_params
          IN /\ pc' = "comp"
             /\ Stored.name =
                   to_uppercase(SubSeq(nap, 1, FirstOutsideQuotes(nap, ";", 1, FALSE) - 1))
             /\ DOMAIN Stored.parameters \subseteq
                   {to_uppercase(ClauseName(cl[i])) : i \in 1..Len(cl)}
             /\ \A i \in 1..Len(cl) :
                   (IsQuotedClause(cl[i]) /\ HasByte(QuotedText(cl[i]), ";")) =>
                      LET vs == Stored.parameters[to_uppercase(ClauseName(cl[i]))]
                      IN \E k \in 1..Len(vs) : vs[k] = QuotedText(cl[i])
             /\ (Len(cl) = 1) =>
                   Stored.parameters =
                      (to_uppercase(ClauseName(cl[1])) :> <<QuotedText(cl[1])>>) ]_vars

\* TEL;X="a;b":1 has been stored with the one parameter X = a;b
C14_Witness ==
    /\ pc = "comp"
    /\ <<"T", "E", "L">> \in DOMAIN vcard
    /\ vcard[<<"T", "E", "L">>][1].parameters = (<<"X">> :> << <<"a", ";", "b">> >>)

\* C15: the values of the clauses NAME=v1,...,vn of a line are stored under
\* the uppercased NAME in the order met, letter case of the values kept and
\* repeated values kept; a later clause with the same name in any letter
\* case appends after the earlier ones; get_parameters (asked in the clause's
\* own letter case) returns that list and get_parameter its first value.
C15_ParametersAccumulate ==
    [][ (/\ AtLineWithParams
         /\ Clauses(ParamsPart) # <<>>
         /\ \A i \in 1..Len(Clauses(ParamsPart)) : IsPlainClause(Clauses(ParamsPart)[i])) =>
          LET cl == Clauses(ParamsPart) IN
          /\ pc' = "comp"
          /\ DOMAIN Stored.parameters = {to_uppercase(ClauseName(cl[i])) : i \in 1..Len(cl)}
          /\ \A i \in 1..Len(cl) :
                LET all == ValuesUnder(cl, 1, to_uppercase(ClauseName(cl[i]))) IN
                /\ Stored.parameters[to_uppercase(ClauseName(cl[i]))] = all
                /\ get_parameters(Stored, ClauseName(cl[i])) = all
                /\ get_parameter(Stored, ClauseName(cl[i])) = Some(all[1]) ]_vars

\* TEL;TYPE=work,fax;Type=fax,Fax:1 has been stored
C15_Witness ==
    /\ pc = "comp"
    /\ <<"T", "E", "L">> \in DOMAIN vcard
    /\ vcard[<<"T", "E", "L">>][1].parameters =
          (<<"T", "Y", "P", "E">> :>
              << <<"w", "o", "r", "k">>, <<"f", "a", "x">>, <<"f", "a", "x">>, <<"F", "a", "x">> >>)

\* C16: the value stored for a property line is its raw value with the five
\* substitutions made one after another over the whole string, in the order
\* \n -> newline, \N -> newline, \; -> ;, \, -> ,, \\ -> \ ; the raw value
\* a\,b\;c\\d\ne is stored as a,b;c\d<newline>e, and a raw value without any
\* of the five sequences is stored as it is.
C16_UnescapeInOrder ==
    [][ (AtLineTokenized /\ pc' = "comp") =>
          /\ Stored.value =
                Substituted(Substituted(Substituted(Substituted(Substituted(RawValue,
                    "n", LF), "N", LF), ";", ";"), ",", ","), BACKSLASH, BACKSLASH)
          /\ (RawValue = EscapedSample) =>
                Stored.value = <<"a", ",", "b", ";", "c", BACKSLASH, "d", LF, "e">>
          /\ ~HasEscape(RawValue) => Stored.value = RawValue ]_vars

\* N:a\,b\;c\\d\ne has been stored
C16_Witness ==
    /\ pc = "comp"
    /\ <<"N">> \in DOMAIN vcard
    /\ lines[current_line] = <<"N", ":">> \o EscapedSample
    /\ vcard[<<"N">>][1].value = <<"a", ",", "b", ";", "c", BACKSLASH, "d", LF, "e">>

\* C17: a logical line (not empty, no whitespace at either end, no line
\* break) cut anywhere into a part A and a part B, written as the physical
\* line A and the physical line of one space or tab followed by B, each
\* ended by LF or CRLF, unfolds to that one logical line: only the one
\* marking character is removed, other whitespace at the cut is kept.
C17_FoldRoundTrip ==
    (out.tag = "lines") => out.lines = <<arg.a \o arg.b>>

\* a cut between two spaces: A ends with a space and B starts with one
C17_Witness ==
    /\ out.tag = "lines"
    /\ arg.a = <<"a", SP>>
    /\ arg.b = <<SP, "a">>
    /\ arg.end1 = <<CR, LF>>
    /\ out.lines = << <<"a", SP, SP, "a">> >>

\* C18: once a call has filled the line buffer, every logical line in it is
\* non-empty and has no whitespace at either end, and there are no more
\* logical lines than physical lines with a non-whitespace byte (a blank or
\* whitespace-only physical line gives no logical line of its own); the
\* buffer does not change while the lines are interpreted.
C18_LineBuffer ==
    [][ /\ (pc' # "idle") =>
              /\ AllTrimmed(lines')
              /\ Len(lines') <= NonBlankPhysicalLines(text')
        /\ (pc \in {"await", "comp"}) => lines' = lines ]_vars

\* CR SP LF a SP: a whitespace-only line, then a line with a space at its end
C18_Witness ==
    /\ pc = "done"
    /\ text = <<CR, SP, LF, "a", SP>>
    /\ lines = << <<"a">> >>

\* C19: after any sequence of add_property calls, get_properties(n) is the
\* sequence of the added properties whose uppercased name is the uppercased
\* n, in the order added, get_property(n) is its first element, and both are
\* nothing when there is none.
C19_PropertiesRetained ==
    \A n \in QueryNames :
        LET added == NamedIn(arg, 1, to_uppercase(n)) IN
        /\ get_properties(vcard, n) = added
        /\ has_property(vcard, n) <=> (added # <<>>)
        /\ has_property(vcard, n) => get_property(vcard, n) = added[1]

\* three TEL properties, from the caller and from lines, and one EMAIL
C19_Witness ==
    /\ Len(arg) = 4
    /\ Len(get_properties(vcard, <<"t", "e", "l">>)) = 3
    /\ get_property(vcard, <<"t", "e", "l">>).value = <<"4">>
    /\ get_properties(vcard, <<"t", "e", "l">>)[3].value = <<"1">>
    /\ has_property(vcard, <<"e", "m", "a", "i", "l">>)
    /\ ~has_property(vcard, <<"A", "D", "R">>)

\* C20: in every record a call returns, every property has a non-empty name
\* and every parameter of every property a non-empty name.
C20_NamesNotEmpty ==
    (pc = "done" /\ result.kind = "ok") =>
        \A r \in 1..Len(result.records) :
            \A K \in DOMAIN result.records[r] :
                \A k \in 1..Len(result.records[r][K]) :
                    /\ result.records[r][K][k].name # <<>>
                    /\ \A pn \in DOMAIN result.records[r][K][k].parameters : pn # <<>>

\* C29: the escapes are decoded by replacing over the whole string, rule
\* after rule, so a doubled backslash does not shield the character after
\* it: the raw value backslash backslash n is stored as a backslash followed
\* by a newline, not as a backslash followed by the letter n.
C29_DoubledBackslash ==
    [][ (AtLineTokenized /\ pc' = "comp" /\ RawValue = <<BACKSLASH, BACKSLASH, "n">>) =>
          Stored.value = <<BACKSLASH, LF>> ]_vars

\* N:\\n has been stored
C29_Witness ==
    /\ pc = "comp"
    /\ current_line > 0
    /\ lines[current_line] = <<"N", ":", BACKSLASH, BACKSLASH, "n">>
    /\ <<"N">> \in DOMAIN vcard
    /\ vcard[<<"N">>][1].value = <<BACKSLASH, LF>>

\* the first four substitutions of the unescaper, and the orders they can
\* be applied in
FirstFourRules == << <<"n", LF>>, <<"N", LF>>, <<";", ";">>, <<",", ",">> >>

RuleOrders ==
    { p \in [DOMAIN FirstFourRules -> DOMAIN FirstFourRules] :
        \A i, j \in DOMAIN FirstFourRules : p[i] = p[j] => i = j }

FixedOrder == [i \in DOMAIN FirstFourRules |-> i]

\* s after the rules p[k], p[k+1], ... each applied over the whole string
RECURSIVE ApplyRules(_, _, _)
ApplyRules(s, p, k) ==
    IF k > Len(FirstFourRules) THEN s
    ELSE ApplyRules(Substituted(s, FirstFourRules[p[k]][1], FirstFourRules[p[k]][2]), p, k + 1)

\* s without its backslashes
RECURSIVE NoBackslash(_)
NoBackslash(s) ==
    IF s = <<>> THEN <<>>
    ELSE IF s[1] = BACKSLASH THEN NoBackslash(Tail(s))
    ELSE <<s[1]>> \o NoBackslash(Tail(s))

\* C23: for every raw value, the first four substitutions applied in any of
\* their orders and then the backslash-backslash rule give the value the
\* code stores, and the backslash-backslash rule leaves every character
\* that an earlier rule produced (newline, semicolon, comma) in place.
C23_FirstFourCommute ==
    [][ (AtLineTokenized /\ pc' = "comp") =>
          /\ \A p \in RuleOrders :
                Stored.value = Substituted(ApplyRules(RawValue, p, 1), BACKSLASH, BACKSLASH)
          /\ NoBackslash(Stored.value) = NoBackslash(ApplyRules(RawValue, FixedOrder, 1)) ]_vars

\* N:\;\n has been stored: two of the four rules have fired
C23_Witness ==
    /\ pc = "comp"
    /\ current_line > 0
    /\ lines[current_line] = <<"N", ":", BACKSLASH, ";", BACKSLASH, "n">>
    /\ <<"N">> \in DOMAIN vcard
    /\ vcard[<<"N">>][1].value = <<";", LF>>

\* C24: every clause NAME=VALUE of a property line that is decoded without
\* error leaves the parameter NAME (uppercased) on the stored property with
\* one value or more, also when VALUE is empty or an empty pair of quotes.
C24_EveryClauseContributes ==
    [][ (AtLineWithParams /\ pc' = "comp") =>
          \A i \in 1..Len(Clauses(ParamsPart)) :
              LET c == Clauses(ParamsPart)[i] IN
              HasByte(c, "=") =>
                  /\ to_uppercase(ClauseName(c)) \in DOMAIN Stored.parameters
                  /\ get_parameters(Stored, ClauseName(c)) # <<>> ]_vars

\* v has a comma inside a double-quoted span
CommaInQuotes(v) ==
    \E j \in 1..Len(v) :
        /\ v[j] = ","
        /\ Cardinality({k \in 1..(j - 1) : v[k] = DQUOTE}) % 2 = 1

\* s without its quote characters
RECURSIVE Unquoted(_)
Unquoted(s) ==
    IF s = <<>> THEN <<>>
    ELSE IF s[1] = DQUOTE THEN Unquoted(Tail(s))
    ELSE <<s[1]>> \o Unquoted(Tail(s))

\* C25: a comma inside a double-quoted span of a parameter value does not
\* separate sub-values: the values stored for a clause whose value has such
\* a comma are the pieces between the commas outside quotes, quote
\* characters removed, whether the quotes enclose a part of the value or
\* the whole of it; the one clause X="a,b" gives the single value a,b.
C25_QuotedComma ==
    [][ (/\ AtLineWithParams
         /\ pc' = "comp"
         /\ \A i \in 1..Len(Clauses(ParamsPart)) : HasByte(Clauses(ParamsPart)[i], "=")) =>
          LET cl == Clauses(ParamsPart) IN
          /\ \A i \in 1..Len(cl) :
                CommaInQuotes(ClauseValue(cl[i])) =>
                    LET pieces == PiecesOutsideQuotes(ClauseValue(cl[i]), ",")
                        vs == get_parameters(Stored, ClauseName(cl[i]))
                    IN /\ \A k \in 1..Len(pieces) :
                             \E m \in 1..Len(vs) : vs[m] = Unquoted(pieces[k])
                       /\ (Len(cl) = 1) =>
                             vs = [k \in 1..Len(pieces) |-> Unquoted(pieces[k])]
          /\ (cl = << <<"X", "=", DQUOTE, "a", ",", "b", DQUOTE>> >>) =>
                Stored.parameters = (<<"X">> :> << <<"a", ",", "b">> >>) ]_vars

\* no parameter value of the record holds a double quote
QuoteFree(object) ==
    \A key \in DOMAIN object :
        \A i \in 1..Len(object[key]) :
            \A pn \in DOMAIN object[key][i].parameters :
                \A k \in 1..Len(object[key][i].parameters[pn]) :
                    ~HasByte(object[key][i].parameters[pn][k], DQUOTE)

\* C28: no parameter value the parser stores holds a double-quote
\* character, in the record being built, in the records collected and in
\* the records returned, whatever quoting the line used.
C28_NoQuoteStored ==
    /\ QuoteFree(vcard)
    /\ \A i \in 1..Len(vcards) : QuoteFree(vcards[i])
    /\ \A i \in 1..Len(result.records) : QuoteFree(result.records[i])

\* TEL;X=a"b,c":1, quotes in the middle of the value, has been returned
\* with the value ab,c
C28_Witness ==
    /\ pc = "done"
    /\ result.kind = "ok"
    /\ \E n \in 1..Len(lines) :
          lines[n] = <<"T", "E", "L", ";", "X", "=", "a", DQUOTE, "b", ",", "c", DQUOTE, ":", "1">>
    /\ Len(result.records) = 1
    /\ <<"T", "E", "L">> \in DOMAIN result.records[1]
    /\ result.records[1][<<"T", "E", "L">>][1].parameters = (<<"X">> :> << <<"a", "b", ",", "c">> >>)

\* the number of properties of a record
RECURSIVE PropertyCount(_)
PropertyCount(object) ==
    IF DOMAIN object = {} THEN 0
    ELSE LET k == CHOOSE x \in DOMAIN object : TRUE IN
         Len(object[k]) + PropertyCount([x \in (DOMAIN object) \ {k} |-> object[x]])

NameBEGIN == <<"B", "E", "G", "I", "N">>

\* the lines are two blocks of property lines of which the first has no
\* END:VCARD: BEGIN:VCARD at line 1 and at line m, END:VCARD at the last
\* line, and between them lines that the tokenizer and the decoders accept;
\* the first VERSION property of all is 4.0 and there is an FN property
TwoBlocksOneEnd(ls, m) ==
    LET body == {i \in 2..(Len(ls) - 1) : i # m} IN
    /\ m \in 2..(Len(ls) - 1)
    /\ IsBeginLine(ls[1])
    /\ IsBeginLine(ls[m])
    /\ IsEndLine(ls[Len(ls)])
    /\ \A i \in body :
          /\ ~IsBeginLine(ls[i])
          /\ ~HasEndPrefix(ls[i])
          /\ parse_property(ls[i]).tag = "ok"
    /\ \E i \in body :
          /\ parse_property(ls[i]).property.name = NameVERSION
          /\ parse_property(ls[i]).property.value = V40
          /\ \A j \in body : j < i => parse_property(ls[j]).property.name # NameVERSION
    /\ \E i \in body : parse_property(ls[i]).property.name = NameFN

\* C26: while a component is open a line BEGIN:VCARD is stored as one more
\* property of the open record, named BEGIN with the text after the colon
\* as value and no parameter; no record is opened or closed and no error is
\* raised. Two blocks of which the first lacks its END:VCARD are returned as
\* one record that holds every line between the first BEGIN and the END.
C26_BeginInsideComponent ==
    [][ /\ (pc = "comp" /\ current_line < Len(lines) /\ IsBeginLine(Line)) =>
            /\ pc' = "comp"
            /\ current_line' = current_line + 1
            /\ vcards' = vcards
            /\ result' = result
            /\ DOMAIN vcard' = DOMAIN vcard \cup {NameBEGIN}
            /\ \A k \in DOMAIN vcard : k # NameBEGIN => vcard'[k] = vcard[k]
            /\ vcard'[NameBEGIN] =
                  (IF NameBEGIN \in DOMAIN vcard THEN vcard[NameBEGIN] ELSE <<>>)
                  \o << [name |-> NameBEGIN,
                         value |-> SubSeq(Line, Len(NameBEGIN) + 2, Len(Line)),
                         parameters |-> EmptyMap] >>
        /\ (pc' = "done" /\ \E m \in 1..Len(lines) : TwoBlocksOneEnd(lines, m)) =>
            /\ result'.kind = "ok"
            /\ Len(result'.records) = 1
            /\ Len(result'.records[1][NameBEGIN]) = 1
            /\ PropertyCount(result'.records[1]) = Len(lines) - 2 ]_vars

\* BEGIN:VCARD, VERSION:4.0, BEGIN:VCARD, VERSION:4.0, FN:A, END:VCARD has
\* been returned as one record
C26_Witness ==
    /\ pc = "done"
    /\ result.kind = "ok"
    /\ Len(result.records) = 1
    /\ NameBEGIN \in DOMAIN result.records[1]
    /\ result.records[1][NameBEGIN][1].value = Vcard
    /\ Len(result.records[1][NameVERSION]) = 2
    /\ \E m \in 1..Len(lines) : TwoBlocksOneEnd(lines, m)

\* what the line at the cursor, read on its own with the record built so
\* far, makes fail (NoError when nothing); the lines after it play no part
FailureHere ==
    IF pc = "await"
    THEN IF current_line >= Len(lines)
         THEN (IF vcards = <<>> THEN MsgNoData ELSE NoError)
         ELSE IF IsBeginLine(Line) THEN NoError
         ELSE MsgExpectedBegin(Line)
    ELSE IF current_line >= Len(lines) THEN MsgUnexpectedEnd
    ELSE IF HasEndPrefix(Line)
    THEN IF EndType(Line) # Vcard THEN MsgMismatchedEnd(EndType(Line))
         ELSE IF NameVERSION \notin DOMAIN vcard THEN MsgMissingVersion
         ELSE IF vcard[NameVERSION][1].value # V40
         THEN MsgUnsupported(vcard[NameVERSION][1].value)
         ELSE IF NameFN \notin DOMAIN vcard THEN MsgMissingFN
         ELSE NoError
    ELSE IF FirstOutsideQuotes(Line, ":", 1, FALSE) = 0 THEN MsgMissingColon(Line)
    ELSE IF /\ tokenize(Line).has_params
            /\ \E i \in 1..Len(Clauses(ParamsPart)) : ~HasByte(Clauses(ParamsPart)[i], "=")
    THEN LET cl == Clauses(ParamsPart)
             bad == {i \in 1..Len(cl) : ~HasByte(cl[i], "=")}
         IN MsgMissingEquals(cl[CHOOSE i \in bad : \A k \in bad : i <= k])
    ELSE NoError

\* the tokenizer panics on the line at the cursor
PanicsHere ==
    /\ pc = "comp"
    /\ current_line < Len(lines)
    /\ ~HasEndPrefix(Line)
    /\ tokenize(Line).tag = "panic"

\* C27: the lines are interpreted one after another and the call ends at
\* the first line that fails, with that line's error: a step whose line
\* fails ends the call with the error of that line (for END:VCARD the
\* validation error of the component it closes, for a property line the
\* error of the line whatever the component lacks), and a step whose line
\* does not fail moves the cursor one line on and reports nothing; the
\* lines after the cursor have no influence.
C27_FirstFailure ==
    [][ (pc \in {"await", "comp"} /\ ~PanicsHere) =>
          IF FailureHere # NoError
          THEN /\ pc' = "done"
               /\ result' = Err(FailureHere)
               /\ vcards' = vcards
          ELSE IF pc = "await" /\ current_line >= Len(lines)
          THEN pc' = "done" /\ result' = Ok(vcards)
          ELSE /\ pc' \in {"await", "comp"}
               /\ result' = result
               /\ current_line' = current_line + 1 ]_vars

\* a component without FN has been closed: its missing FN is reported
\* although the line after its END:VCARD has no colon
C27_Witness ==
    /\ pc = "done"
    /\ result = Err(MsgMissingFN)
    /\ current_line < Len(lines)
    /\ IsEndLine(lines[current_line])
    /\ ~IsBeginLine(lines[current_line + 1])
    /\ FirstOutsideQuotes(lines[current_line + 1], ":", 1, FALSE) = 0

\* the property a builder call sets, by the documentation of the method
PropertySetBy(call) ==
    CASE call.method = "version" -> <<"V", "E", "R", "S", "I", "O", "N">>
      [] call.method = "formatted_name" -> <<"F", "N">>
      [] call.method = "name" -> <<"N">>
      [] call.method = "name_parts" -> <<"N">>
      [] call.method = "telephone" -> <<"T", "E", "L">>
      [] call.method = "email" -> <<"E", "M", "A", "I", "L">>
      [] call.method = "address" -> <<"A", "D", "R">>
      [] call.method = "address_parts" -> <<"A", "D", "R">>
      [] call.method = "organization" -> <<"O", "R", "G">>
      [] call.method = "title" -> <<"T", "I", "T", "L", "E">>
      [] call.method = "role" -> <<"R", "O", "L", "E">>
      [] call.method = "nickname" -> <<"N", "I", "C", "K", "N", "A", "M", "E">>
      [] call.method = "photo" -> <<"P", "H", "O", "T", "O">>
      [] call.method = "birthday" -> <<"B", "D", "A", "Y">>
      [] call.method = "anniversary" -> <<"A", "N", "N", "I", "V", "E", "R", "S", "A", "R", "Y">>
      [] call.method = "gender" -> <<"G", "E", "N", "D", "E", "R">>
      [] call.method = "url" -> <<"U", "R", "L">>
      [] call.method = "note" -> <<"N", "O", "T", "E">>
      [] call.method = "uid" -> <<"U", "I", "D">>
      [] call.method = "categories" -> <<"C", "A", "T", "E", "G", "O", "R", "I", "E", "S">>
      [] call.method = "revision" -> <<"R", "E", "V">>
      [] call.method = "custom_property" -> call.name

\* the same property, names compared without regard to letter case
SameProperty(c, d) ==
    LET a == PropertySetBy(c)
        b == PropertySetBy(d)
    IN /\ Len(a) = Len(b)
       /\ \A i \in 1..Len(a) :
             \E k \in 1..26 : {a[i], b[i]} \subseteq {LowerCase[k], UpperCase[k]}
             \/ a[i] = b[i]

\* a type tag as the record holds it: the variant's name in lower case
TagText(variant) ==
    [i \in 1..Len(variant) |->
        IF \E k \in 1..26 : UpperCase[k] = variant[i]
        THEN LowerCase[CHOOSE k \in 1..26 : UpperCase[k] = variant[i]]
        ELSE variant[i]]

\* the components of a call joined by ';'
RECURSIVE SemicolonJoined(_)
SemicolonJoined(parts) ==
    IF parts = <<>> THEN <<>>
    ELSE IF Len(parts) = 1 THEN parts[1]
    ELSE parts[1] \o <<";">> \o SemicolonJoined(Tail(parts))

\* the value a call was given
ValueGiven(call) ==
    IF call.method \in {"name_parts", "address_parts"}
    THEN SemicolonJoined(call.parts)
    ELSE call.value

\* C21: in a built record, a property that the chain set once is found by
\* get_property under the method's property name (in any letter case) with
\* exactly the value given, no byte added, removed or changed; name_parts
\* and address_parts give their components joined by ';'; the type tags of
\* telephone, email and address calls are the values of the one parameter
\* TYPE, in the order given, and a call without tags has no parameter.
C21_BuilderRoundTrip ==
    (out.tag = "built") =>
        \A i \in 1..Len(arg) :
            (\A j \in 1..Len(arg) : j # i => ~SameProperty(arg[i], arg[j])) =>
                LET P == PropertySetBy(arg[i]) IN
                /\ has_property(out.vcard, P)
                /\ Len(get_properties(out.vcard, P)) = 1
                /\ get_property(out.vcard, P).value = ValueGiven(arg[i])
                /\ get_parameters(get_property(out.vcard, P), <<"t", "y", "p", "e">>) =
                      [k \in 1..Len(arg[i].types) |-> TagText(arg[i].types[k])]
                /\ DOMAIN get_property(out.vcard, P).parameters =
                      (IF arg[i].types = <<>> THEN {} ELSE {<<"T", "Y", "P", "E">>})

\* telephone(1, [Work, Voice]) and name_parts(...) have been built
C21_Witness ==
    /\ out.tag = "built"
    /\ Len(arg) = 2
    /\ arg[1].method = "telephone"
    /\ arg[2].method = "name_parts"
    /\ out.vcard[<<"T", "E", "L">>][1].parameters =
          (<<"T", "Y", "P", "E">> :> << <<"w", "o", "r", "k">>, <<"v", "o", "i", "c", "e">> >>)
    /\ out.vcard[<<"N">>][1].value =
          <<"D", "o", "e", ";", "J", ";", ";", SP, "a", BACKSLASH, "n", ";", SP, ";">>

\* C22: the builder refuses nothing: at every point of a chain build can be
\* called, what it returns is a record, and the record holds one property
\* for every call made, whether or not it has a VERSION, a VERSION of 4.0
\* or an FN.
C22_BuilderNeverFails ==
    /\ out.tag \in {"none", "built"}
    /\ (out.tag = "none") => ENABLED Build
    /\ (out.tag = "built") =>
          /\ out.vcard = vcard
          /\ PropertyCount(out.vcard) = Len(arg)

\* a record with VERSION 3.0 and no FN, which the parse path refuses, has
\* been built
C22_Witness ==
    /\ out.tag = "built"
    /\ has_property(out.vcard, NameVERSION)
    /\ get_property(out.vcard, NameVERSION).value = <<"3", ".", "0">>
    /\ ~has_property(out.vcard, NameFN)
    /\ validate_vcard(out.vcard) = MsgUnsupported(<<"3", ".", "0">>)

====
